---- MODULE Spec2Model ----
(***************************************************************************)
(* Verification model of the football_easy decision engine.                *)
(*                                                                         *)
(* Part 1: the shared-memory message bus (class Communication): the slot   *)
(* table, the named mutex with its bounded wait, and the initialize, send, *)
(* receive and setCycle operations of every agent process.  A send writes  *)
(* its slot one field per step under the mutex, as the code does.          *)
(* The orientation and data fields are written and copied exactly like     *)
(* position and are left out of the slot record.                           *)
(*                                                                         *)
(* Part 2: the tactic catalog (class TacticFactory): registerTactic and    *)
(* selectBestTactic over a list of tactics with per-cycle scores.          *)
(***************************************************************************)
EXTENDS Integers, Sequences, FiniteSets, TLC

(* ------------------------------ bounds -------------------------------- *)
\* number of agent processes, with robot ids 0..NumAgents-1
NumAgents == 2
\* slots in the shared table (20 in the source; scaled down)
MAX_MESSAGES == 2
\* send and receive calls made in one run
MaxCalls == 3
\* decision cycles one agent program runs
MaxCycles == 14
\* samples a BallTools history holds (60 in the source; scaled down)
MAX_HISTORY_FRAMES == 3
\* samples a Player history holds (20 in the source; scaled down)
PLAYER_HISTORY_SIZE == 2
\* samples an OppPlayer history holds (10 in the source; scaled down)
OPP_HISTORY_SIZE == 2
\* samples a Teammate history holds (10 in the source; scaled down)
HISTORY_SIZE == 2
\* updateState() calls made on the trackers after their construction
MaxUpdates == 4
\* tactics registered in the catalog
MaxTactics == 3
\* score levels 0..MaxScore that evaluate() can return (order-preserving
\* ranks of the doubles; selectBestTactic only compares scores)
MaxScore == 1
\* robots of one team that a counting loop of evaluate() can find
MaxPlayers == 3

(* ----------------------------- constants ------------------------------ *)
\* "timestamp < current_cycle - 10"
TTL == 10

Agents == 0 .. (NumAgents - 1)
Slots == 1 .. MAX_MESSAGES
NoAgent == -1

\* enum class MessageType; only the types the broadcast / pass helpers send
NONE == "NONE"
SentTypes == {"BALL_POSSESSION", "PASS_INTENTION"}
MessageTypes == {NONE} \cup SentTypes

\* point2f values, named by one coordinate: a sent position is (50,50), the
\* position of a zeroed slot and of Message() is (0,0)
Positions == {50}

\* cycle numbers an agent passes to setCycle: around the TTL boundary
Cycles == {0, TTL, TTL + 1}

\* Message::Message(): the value receiveMessage returns when nothing matches
DefaultMessage ==
    [sender_id |-> -1, receiver_id |-> -1, type |-> NONE,
     timestamp |-> 0, position |-> 0]

\* a slot after memset(shared_memory, 0, ...) or in a fresh page-file mapping
ZeroSlot ==
    [sender_id |-> 0, receiver_id |-> 0, type |-> NONE,
     timestamp |-> 0, position |-> 0]

NoArg == [receiver |-> NoAgent, type |-> NONE, position |-> 0]

VARIABLES
    table,          \* shared_memory->messages
    mutex,          \* owner of h_mutex, NoAgent when free
    is_initialized, \* per agent
    current_cycle,  \* per agent
    pc,             \* per agent: position inside the current call
    arg,            \* per agent: arguments of the current call
    slot,           \* per agent: index i of the slot a send is filling
    ret,            \* per agent: value sendMessage returns
    result,         \* per agent: Message receiveMessage returns
    intended,       \* per slot: the message its last writer set out to store
    sentSeq,        \* per slot: rank of the send that claimed it among the
                    \* sends whose slots are still claimed (0: never claimed)
    outcome,        \* per agent: the line the finished call logged
    ncalls,         \* send / receive calls started so far
    tactics,        \* TacticFactory::tactics, the category of each entry
    score,          \* evaluate().score of each entry in the current cycle
    best,           \* index selectBestTactic returned, 0 for nullptr
    selType,        \* category of the last selectBestTactic call
    evaluated,      \* indices whose evaluate() that call ran
    evalTactic,     \* name of the tactic whose evaluate() ran last
    evalInput,      \* what that evaluate() read from the world
    evalScore,      \* the score it returned, in twentieths
    initialized,    \* static bool initialized of the agent program
    tracked,        \* position.x, velocity.x members of the program's BallTools
    dll,            \* the agent program this process runs
    ppc,            \* position inside the current player_plan call
    world,          \* what the call read from the WorldModel
    pass_msg,       \* Message the call received for PASS_INTENTION
    sent_ok,        \* what its broadcastBallPossession returned
    evald,          \* tactics whose evaluate() ran in the call
    execd,          \* tactics whose execute() ran in the call, in order
    bestOf,         \* tactic and score selected for each category tried
    task,           \* PlayerTask task of the call
    path,           \* the return statement the call left through
    returned,       \* number of PlayerTasks the call handed to its caller
    fault,          \* the fault raised inside the call, "none" if none
    prevFault,      \* fault of the previous call
    ball,           \* position, velocity, speed, direction of the ball tracker
    calls,          \* the newest queries answered from that state, at most two
    cycles,         \* per agent: its decision cycles as the message table sees them
    ballTools,      \* the history and the derivative members of a BallTools
    samples,        \* what its newest updateState() calls read, oldest first
    player,         \* the members of a Player that its updateState() writes
    roster          \* OppPlayers::players, Teammates::players, Players::player1/2

busVars == <<table, mutex, is_initialized, current_cycle, pc, arg, slot, ret,
             result, intended, sentSeq, outcome, ncalls>>
tacVars == <<tactics, score, best, selType, evaluated>>
scoreVars == <<evalTactic, evalInput, evalScore>>
\* everything outside the bus and the catalog
planVars == <<initialized, tracked, dll, ppc, world, pass_msg, sent_ok, evald, execd,
              bestOf, task, path, returned, fault, prevFault>>
ballVars == <<ball, calls>>
extVars == <<scoreVars, planVars, ballVars>>
cycleVars == <<cycles>>
\* the decision cycles and the trackers
trackVars == <<ballTools, samples, player>>
rosterVars == <<roster>>
lateVars == <<cycleVars, trackVars, rosterVars>>
vars == <<table, mutex, is_initialized, current_cycle, pc, arg, slot, ret,
          result, intended, sentSeq, outcome, ncalls,
          tactics, score, best, selType, evaluated,
          evalTactic, evalInput, evalScore,
          initialized, tracked, dll, ppc, world, pass_msg, sent_ok, evald, execd,
          bestOf, task, path, returned, fault, prevFault, ball, calls,
          cycles, ballTools, samples, player, roster>>

(* ------------------------- pure parts of the bus ---------------------- *)

\* a wait that does not exclude a second owner
CanAcquireAlways(m, a) == TRUE

\* WaitForSingleObject(h_mutex, 1000) == WAIT_OBJECT_0: the mutex is free,
\* or owned by the calling thread (Windows mutexes are recursive)
CanAcquire(m, a) == m \in {NoAgent, a}

\* a wait with an INFINITE timeout
WaitNeverTimesOut(m, a) == FALSE

\* WaitForSingleObject returns WAIT_TIMEOUT: another owner kept the mutex
\* for the whole bounded wait
WaitTimesOut(m, a) == m \notin {NoAgent, a}

\* an exit path that forgets ReleaseMutex
ReleaseMutexLeak(m, a) == m

\* ReleaseMutex(h_mutex)
ReleaseMutex(m, a) == IF m = a THEN NoAgent ELSE m

\* bookkeeping of the order in which the slots were claimed: slot i becomes
\* the most recent one, the ranks above its old rank move down by one
Reorder(seq, i) ==
    [j \in Slots |->
        IF j = i THEN Cardinality({k \in Slots : seq[k] > 0} \cup {i})
        ELSE IF seq[i] > 0 /\ seq[j] > seq[i] THEN seq[j] - 1 ELSE seq[j]]

\* the slot test with <= for <: a message exactly TTL cycles old is reused
SlotReusableInclusive(s, cyc) == s.type = NONE \/ s.timestamp <= cyc - TTL

\* the slot test of sendMessage
SlotReusable(s, cyc) == s.type = NONE \/ s.timestamp < cyc - TTL

\* for (i = 0; i < MAX_MESSAGES; i++) if (...) : first reusable slot, 0 if none
FindSlot(tbl, cyc) ==
    IF \E i \in Slots : SlotReusable(tbl[i], cyc)
    THEN CHOOSE i \in Slots : /\ SlotReusable(tbl[i], cyc)
                              /\ \A j \in Slots : SlotReusable(tbl[j], cyc) => i <= j
    ELSE 0

\* the message sendMessage stores
NewMessage(a, ar, cyc) ==
    [sender_id |-> a, receiver_id |-> ar.receiver, type |-> ar.type,
     timestamp |-> cyc, position |-> ar.position]

\* the slot test without the receiver_id comparison
MatchesAnyReceiver(s, id, type, latest) ==
    /\ (type = NONE \/ s.type = type)
    /\ s.timestamp > latest

\* the slot test with the type comparison inverted
MatchesWrongType(s, id, type, latest) ==
    /\ s.receiver_id = id
    /\ (type = NONE \/ s.type # type)
    /\ s.timestamp > latest

\* the slot test of receiveMessage
Matches(s, id, type, latest) ==
    /\ s.receiver_id = id
    /\ (type = NONE \/ s.type = type)
    /\ s.timestamp > latest

RECURSIVE ScanFrom(_, _, _, _, _, _)
ScanFrom(tbl, id, type, i, latest, res) ==
    IF i > MAX_MESSAGES THEN res
    ELSE IF Matches(tbl[i], id, type, latest)
         THEN ScanFrom(tbl, id, type, i + 1, tbl[i].timestamp, tbl[i])
         ELSE ScanFrom(tbl, id, type, i + 1, latest, res)

\* the loop of receiveMessage: latest_timestamp = -1, result = Message()
receiveMessage(tbl, id, type) == ScanFrom(tbl, id, type, 1, -1, DefaultMessage)

WaitPcs == {"i_wait", "s_wait", "r_wait"}
HoldPcs == {"i_cs", "s_scan", "s_w1", "s_w2", "s_w3", "s_w4", "s_w5", "s_rel", "r_cs"}

(* ------------------------------- Init --------------------------------- *)

BusInit ==
    /\ table = [i \in Slots |-> ZeroSlot]
    /\ mutex = NoAgent
    /\ is_initialized = [a \in Agents |-> FALSE]
    /\ current_cycle = [a \in Agents |-> 0]
    /\ pc = [a \in Agents |-> "idle"]
    /\ arg = [a \in Agents |-> NoArg]
    /\ slot = [a \in Agents |-> 0]
    /\ ret = [a \in Agents |-> FALSE]
    /\ result = [a \in Agents |-> DefaultMessage]
    /\ intended = [i \in Slots |-> ZeroSlot]
    /\ sentSeq = [i \in Slots |-> 0]
    /\ outcome = [a \in Agents |-> "none"]
    /\ ncalls = 0

TacInit ==
    /\ tactics = << >>
    /\ score = << >>
    /\ best = 0
    /\ selType = "none"
    /\ evaluated = {}

ScoreInit ==
    /\ evalTactic = "none"
    /\ evalInput = << >>
    /\ evalScore = 0

\* PlayerTask task; before any member is assigned
DefaultTask ==
    [from |-> "none", target_pos |-> "unset", orientate |-> "unset",
     needKick |-> FALSE, needCb |-> FALSE]

\* no WorldModel has been read
NoWorld == [ref |-> "none", ball_x |-> 0, counter |-> 0, quick |-> 0]

\* no selectBestTactic call has been made
NoBest == [name |-> "none", score |-> -1]
NoneSelected == [special |-> NoBest, transition |-> NoBest, category |-> NoBest]

PlanInit ==
    /\ initialized = FALSE
    /\ tracked = [ball_x |-> 0, vel_x |-> 0]
    /\ dll = "none"
    /\ ppc = "idle"
    /\ world = NoWorld
    /\ pass_msg = DefaultMessage
    /\ sent_ok = FALSE
    /\ evald = {}
    /\ execd = << >>
    /\ bestOf = NoneSelected
    /\ task = DefaultTask
    /\ path = "none"
    /\ returned = 0
    /\ fault = "none"
    /\ prevFault = "none"

\* a tracker whose updateState has read a ball at rest on the centre spot
BallInit ==
    /\ ball = [position |-> [x |-> 0, y |-> 0], velocity |-> [x |-> 0, y |-> 0],
               speed |-> 0, direction |-> 0]
    /\ calls = << >>

\* static int cycle_counter = 0 of each agent program; nothing failed,
\* nothing received, no command returned
CycleInit ==
    cycles = [a \in Agents |-> [cycle_counter |-> 0, failed |-> 0,
                                passAge |-> -1, command |-> "none"]]

Origin == [x |-> 0, y |-> 0]

\* BallTools(model) and Player(id, model, ball) constructed with the ball at
\* rest on the centre spot and the player absent: the loops push zeros, the
\* first updateState() reads the ball (dt counted from the epoch) and finds
\* no player
TrackInit ==
    /\ ballTools = [position |-> Origin, lastPosition |-> Origin,
                    velocity |-> Origin, lastVelocity |-> Origin,
                    acceleration |-> Origin, displacementRate |-> 0,
                    positionHistory |-> [i \in 1 .. MAX_HISTORY_FRAMES |-> Origin],
                    velocityHistory |-> [i \in 1 .. MAX_HISTORY_FRAMES |-> Origin],
                    duration |-> 1000, updates |-> 1]
    /\ samples = <<[position |-> Origin, velocity |-> Origin]>>
    /\ player = [isActive |-> FALSE, position |-> Origin, orientation |-> 0,
                 velocity |-> Origin, rotSpeed |-> 0,
                 positionHistory |-> [i \in 1 .. PLAYER_HISTORY_SIZE |-> Origin],
                 velocityHistory |-> [i \in 1 .. PLAYER_HISTORY_SIZE |-> Origin],
                 orientationHistory |-> [i \in 1 .. PLAYER_HISTORY_SIZE |-> 0],
                 duration |-> 0, updates |-> 1]

\* a player slot nothing was written to
NoPlayer ==
    [id |-> NoAgent, isActive |-> FALSE, position |-> Origin, lastPosition |-> Origin,
     positionHistory |-> [i \in 1 .. PLAYER_HISTORY_SIZE |-> Origin]]

\* OppPlayers, Teammates and Players constructed while the existence arrays
\* report no robot: their first updateState() finds nobody
RosterInit ==
    roster = [opp |-> << >>, mates |-> << >>, player1 |-> NoPlayer,
              player2 |-> NoPlayer, updates |-> 0]

LateInit == CycleInit /\ TrackInit /\ RosterInit

ExtInit == ScoreInit /\ PlanInit /\ BallInit /\ LateInit

Init == BusInit /\ TacInit /\ ExtInit

(* --------------------------- Communication ---------------------------- *)

\* initialize(robot_id), up to the wait for the mutex; player_plan calls it
\* once per process, on its first cycle, whatever the peers have done so far
InitializeCall(a) ==
    /\ pc[a] = "idle"
    /\ ~is_initialized[a]
    /\ pc' = [pc EXCEPT ![a] = "i_wait"]
    /\ UNCHANGED <<table, mutex, is_initialized, current_cycle, arg, slot, ret,
                   result, intended, sentSeq, outcome, ncalls>>

InitializeAcquire(a) ==
    /\ pc[a] = "i_wait"
    /\ CanAcquire(mutex, a)
    /\ mutex' = a
    /\ pc' = [pc EXCEPT ![a] = "i_cs"]
    /\ UNCHANGED <<table, is_initialized, current_cycle, arg, slot, ret,
                   result, intended, sentSeq, outcome, ncalls>>

\* the wait timed out: the memset is skipped, is_initialized = true all the same
InitializeTimeout(a) ==
    /\ pc[a] = "i_wait"
    /\ WaitTimesOut(mutex, a)
    /\ is_initialized' = [is_initialized EXCEPT ![a] = TRUE]
    /\ pc' = [pc EXCEPT ![a] = "idle"]
    /\ UNCHANGED <<table, mutex, current_cycle, arg, slot, ret,
                   result, intended, sentSeq, outcome, ncalls>>

\* memset(shared_memory, 0, sizeof(SharedMemory)); ReleaseMutex
InitializeMemset(a) ==
    /\ pc[a] = "i_cs"
    /\ table' = [i \in Slots |-> ZeroSlot]
    /\ intended' = [i \in Slots |-> ZeroSlot]
    /\ sentSeq' = [i \in Slots |-> 0]
    /\ mutex' = ReleaseMutex(mutex, a)
    /\ is_initialized' = [is_initialized EXCEPT ![a] = TRUE]
    /\ pc' = [pc EXCEPT ![a] = "idle"]
    /\ UNCHANGED <<current_cycle, arg, slot, ret, result, outcome, ncalls>>

\* setCycle(cycle); cycle numbers only advance
SetCycle(a, c) ==
    /\ pc[a] = "idle"
    /\ c > current_cycle[a]
    /\ current_cycle' = [current_cycle EXCEPT ![a] = c]
    /\ UNCHANGED <<table, mutex, is_initialized, pc, arg, slot, ret,
                   result, intended, sentSeq, outcome, ncalls>>

\* sendMessage(receiver_id, type, position): entry and the initialized test
\* ("Cannot send message: Communication not initialized": return false)
SendCall(a, r, t, p) ==
    /\ pc[a] = "idle"
    /\ ncalls < MaxCalls
    /\ ncalls' = ncalls + 1
    /\ arg' = [arg EXCEPT ![a] = [receiver |-> r, type |-> t, position |-> p]]
    /\ IF is_initialized[a]
       THEN /\ pc' = [pc EXCEPT ![a] = "s_wait"]
            /\ UNCHANGED <<ret, outcome>>
       ELSE /\ pc' = [pc EXCEPT ![a] = "s_done"]
            /\ ret' = [ret EXCEPT ![a] = FALSE]
            /\ outcome' = [outcome EXCEPT ![a] = "uninit"]
    /\ UNCHANGED <<table, mutex, is_initialized, current_cycle, slot,
                   result, intended, sentSeq>>

SendAcquire(a) ==
    /\ pc[a] = "s_wait"
    /\ CanAcquire(mutex, a)
    /\ mutex' = a
    /\ pc' = [pc EXCEPT ![a] = "s_scan"]
    /\ UNCHANGED <<table, is_initialized, current_cycle, arg, slot, ret,
                   result, intended, sentSeq, outcome, ncalls>>

\* "Failed to acquire mutex for sending": return false
SendTimeout(a) ==
    /\ pc[a] = "s_wait"
    /\ WaitTimesOut(mutex, a)
    /\ ret' = [ret EXCEPT ![a] = FALSE]
    /\ outcome' = [outcome EXCEPT ![a] = "timeout"]
    /\ pc' = [pc EXCEPT ![a] = "s_done"]
    /\ UNCHANGED <<table, mutex, is_initialized, current_cycle, arg, slot,
                   result, intended, sentSeq, ncalls>>

\* the for loop: the first reusable slot is claimed, or the table is full
\* ("Message buffer full": ReleaseMutex, return false)
SendScan(a) ==
    /\ pc[a] = "s_scan"
    /\ LET i == FindSlot(table, current_cycle[a]) IN
       IF i # 0
       THEN /\ slot' = [slot EXCEPT ![a] = i]
            /\ intended' = [intended EXCEPT
                              ![i] = NewMessage(a, arg[a], current_cycle[a])]
            /\ sentSeq' = Reorder(sentSeq, i)
            /\ pc' = [pc EXCEPT ![a] = "s_w1"]
            /\ UNCHANGED <<mutex, ret, outcome>>
       ELSE /\ mutex' = ReleaseMutex(mutex, a)
            /\ ret' = [ret EXCEPT ![a] = FALSE]
            /\ outcome' = [outcome EXCEPT ![a] = "full"]
            /\ pc' = [pc EXCEPT ![a] = "s_done"]
            /\ UNCHANGED <<slot, intended, sentSeq>>
    /\ UNCHANGED <<table, is_initialized, current_cycle, arg, result, ncalls>>

\* messages[i].sender_id = robot_id
SendWriteSender(a) ==
    /\ pc[a] = "s_w1"
    /\ table' = [table EXCEPT ![slot[a]].sender_id = a]
    /\ pc' = [pc EXCEPT ![a] = "s_w2"]
    /\ UNCHANGED <<mutex, is_initialized, current_cycle, arg, slot, ret,
                   result, intended, sentSeq, outcome, ncalls>>

\* messages[i].receiver_id = receiver_id
SendWriteReceiver(a) ==
    /\ pc[a] = "s_w2"
    /\ table' = [table EXCEPT ![slot[a]].receiver_id = arg[a].receiver]
    /\ pc' = [pc EXCEPT ![a] = "s_w3"]
    /\ UNCHANGED <<mutex, is_initialized, current_cycle, arg, slot, ret,
                   result, intended, sentSeq, outcome, ncalls>>

\* messages[i].type = type
SendWriteType(a) ==
    /\ pc[a] = "s_w3"
    /\ table' = [table EXCEPT ![slot[a]].type = arg[a].type]
    /\ pc' = [pc EXCEPT ![a] = "s_w4"]
    /\ UNCHANGED <<mutex, is_initialized, current_cycle, arg, slot, ret,
                   result, intended, sentSeq, outcome, ncalls>>

\* messages[i].timestamp = current_cycle
SendWriteTimestamp(a) ==
    /\ pc[a] = "s_w4"
    /\ table' = [table EXCEPT ![slot[a]].timestamp = current_cycle[a]]
    /\ pc' = [pc EXCEPT ![a] = "s_w5"]
    /\ UNCHANGED <<mutex, is_initialized, current_cycle, arg, slot, ret,
                   result, intended, sentSeq, outcome, ncalls>>

\* messages[i].position = position (orientation and data follow likewise)
SendWritePosition(a) ==
    /\ pc[a] = "s_w5"
    /\ table' = [table EXCEPT ![slot[a]].position = arg[a].position]
    /\ pc' = [pc EXCEPT ![a] = "s_rel"]
    /\ UNCHANGED <<mutex, is_initialized, current_cycle, arg, slot, ret,
                   result, intended, sentSeq, outcome, ncalls>>

\* ReleaseMutex(h_mutex); "Message sent to robot ..."; return true
SendRelease(a) ==
    /\ pc[a] = "s_rel"
    /\ mutex' = ReleaseMutex(mutex, a)
    /\ ret' = [ret EXCEPT ![a] = TRUE]
    /\ outcome' = [outcome EXCEPT ![a] = "sent"]
    /\ slot' = [slot EXCEPT ![a] = 0]
    /\ pc' = [pc EXCEPT ![a] = "s_done"]
    /\ UNCHANGED <<table, is_initialized, current_cycle, arg,
                   result, intended, sentSeq, ncalls>>

\* receiveMessage(type): Message result; and the initialized test
\* ("Cannot receive message: Communication not initialized": return result)
ReceiveCall(a, t) ==
    /\ pc[a] = "idle"
    /\ ncalls < MaxCalls
    /\ ncalls' = ncalls + 1
    /\ arg' = [arg EXCEPT ![a] = [receiver |-> NoAgent, type |-> t, position |-> 0]]
    /\ result' = [result EXCEPT ![a] = DefaultMessage]
    /\ IF is_initialized[a]
       THEN /\ pc' = [pc EXCEPT ![a] = "r_wait"]
            /\ UNCHANGED outcome
       ELSE /\ pc' = [pc EXCEPT ![a] = "r_done"]
            /\ outcome' = [outcome EXCEPT ![a] = "uninit"]
    /\ UNCHANGED <<table, mutex, is_initialized, current_cycle, slot, ret,
                   intended, sentSeq>>

ReceiveAcquire(a) ==
    /\ pc[a] = "r_wait"
    /\ CanAcquire(mutex, a)
    /\ mutex' = a
    /\ pc' = [pc EXCEPT ![a] = "r_cs"]
    /\ UNCHANGED <<table, is_initialized, current_cycle, arg, slot, ret,
                   result, intended, sentSeq, outcome, ncalls>>

\* "Failed to acquire mutex for receiving": return the untouched result
ReceiveTimeout(a) ==
    /\ pc[a] = "r_wait"
    /\ WaitTimesOut(mutex, a)
    /\ outcome' = [outcome EXCEPT ![a] = "timeout"]
    /\ pc' = [pc EXCEPT ![a] = "r_done"]
    /\ UNCHANGED <<table, mutex, is_initialized, current_cycle, arg, slot, ret,
                   result, intended, sentSeq, ncalls>>

\* the for loop over the slots, then ReleaseMutex
ReceiveScan(a) ==
    /\ pc[a] = "r_cs"
    /\ result' = [result EXCEPT ![a] = receiveMessage(table, a, arg[a].type)]
    /\ mutex' = ReleaseMutex(mutex, a)
    /\ outcome' = [outcome EXCEPT ![a] = "scanned"]
    /\ pc' = [pc EXCEPT ![a] = "r_done"]
    /\ UNCHANGED <<table, is_initialized, current_cycle, arg, slot, ret,
                   intended, sentSeq, ncalls>>

\* the caller takes the returned value; the call's locals are gone
Return(a) ==
    /\ pc[a] \in {"s_done", "r_done"}
    /\ pc' = [pc EXCEPT ![a] = "idle"]
    /\ arg' = [arg EXCEPT ![a] = NoArg]
    /\ ret' = [ret EXCEPT ![a] = FALSE]
    /\ result' = [result EXCEPT ![a] = DefaultMessage]
    /\ outcome' = [outcome EXCEPT ![a] = "none"]
    /\ UNCHANGED <<table, mutex, is_initialized, current_cycle, slot,
                   intended, sentSeq, ncalls>>

\* the step that ends a bounded wait, with or without the mutex
WaitStep(a) ==
    \/ InitializeAcquire(a) \/ InitializeTimeout(a)
    \/ SendAcquire(a) \/ SendTimeout(a)
    \/ ReceiveAcquire(a) \/ ReceiveTimeout(a)

BusNext ==
    \E a \in Agents :
        \/ InitializeCall(a)
        \/ InitializeAcquire(a)
        \/ InitializeTimeout(a)
        \/ InitializeMemset(a)
        \/ \E c \in Cycles : SetCycle(a, c)
        \/ \E r \in Agents, t \in SentTypes, p \in Positions : SendCall(a, r, t, p)
        \/ SendAcquire(a)
        \/ SendTimeout(a)
        \/ SendScan(a)
        \/ SendWriteSender(a)
        \/ SendWriteReceiver(a)
        \/ SendWriteType(a)
        \/ SendWriteTimestamp(a)
        \/ SendWritePosition(a)
        \/ SendRelease(a)
        \/ \E t \in MessageTypes : ReceiveCall(a, t)
        \/ ReceiveAcquire(a)
        \/ ReceiveTimeout(a)
        \/ ReceiveScan(a)
        \/ Return(a)

Next == BusNext /\ UNCHANGED <<tacVars, extVars, lateVars>>

Spec == Init /\ [][Next]_vars

\* every bounded wait ends: WaitForSingleObject(h_mutex, 1000) returns
FairSpec == Spec /\ \A a \in Agents : WF_vars(WaitStep(a) /\ UNCHANGED <<tacVars, extVars, lateVars>>)

(* --------------------------- TacticFactory ---------------------------- *)

\* enum class TacticType
TacticTypes == {"ATTACK", "DEFENSE", "TRANSITION", "SPECIAL_SITUATION"}

\* the score levels evaluate() returns; every tactic's score is a sum of
\* non-negative terms, so all of them lie above the initial best_score = -1.0
Scores == 0 .. MaxScore

\* if (tactic->getType() != type) continue;
Skipped(t, type) == t # type

\* the comparison with >= for >: the last of several equal scores wins
BetterOrEqual(s, best_score) == s >= best_score

\* if (eval.score > best_score)
Better(s, best_score) == s > best_score

RECURSIVE SelectFrom(_, _, _, _, _, _)
SelectFrom(ts, sc, type, i, best_score, best_tactic) ==
    IF i > Len(ts) THEN best_tactic
    ELSE IF Skipped(ts[i], type)
         THEN SelectFrom(ts, sc, type, i + 1, best_score, best_tactic)
         ELSE IF Better(sc[i], best_score)
              THEN SelectFrom(ts, sc, type, i + 1, sc[i], i)
              ELSE SelectFrom(ts, sc, type, i + 1, best_score, best_tactic)

\* the loop of selectBestTactic: best_score = -1.0, best_tactic = nullptr
selectBestTactic(ts, sc, type) == SelectFrom(ts, sc, type, 1, -1, 0)

\* registerTactic(tactic): tactics.push_back; s is what its evaluate()
\* returns in the current cycle
RegisterTactic(t, s) ==
    /\ Len(tactics) < MaxTactics
    /\ tactics' = Append(tactics, t)
    /\ score' = Append(score, s)
    /\ best' = 0
    /\ selType' = "none"
    /\ evaluated' = {}

\* a new decision cycle: the world state, and with it every score, changes
NewCycle ==
    /\ tactics # << >>
    /\ \E sc \in [1 .. Len(tactics) -> Scores] : score' = sc
    /\ score' # score
    /\ best' = 0
    /\ selType' = "none"
    /\ evaluated' = {}
    /\ UNCHANGED tactics

\* selectBestTactic(type) called by player_plan
SelectBest(type) ==
    /\ selType = "none"
    /\ best' = selectBestTactic(tactics, score, type)
    /\ selType' = type
    /\ evaluated' = {i \in 1 .. Len(tactics) : ~Skipped(tactics[i], type)}
    /\ UNCHANGED <<tactics, score>>

TacNext ==
    \/ \E t \in TacticTypes, s \in Scores : RegisterTactic(t, s)
    \/ NewCycle
    \/ \E t \in TacticTypes : SelectBest(t)

NextTactics == TacNext /\ UNCHANGED <<busVars, extVars, lateVars>>

SpecTactics == Init /\ [][NextTactics]_vars

(* ------------------------- claims on the bus -------------------------- *)

\* the step in which agent a's receiveMessage scans the table
ReceiveScanStep(a) == pc[a] = "r_cs" /\ pc'[a] = "r_done"

\* the step in which agent a's sendMessage runs its slot search
SendScanStep(a) == pc[a] = "s_scan" /\ pc'[a] # "s_scan"

\* a slot that holds a sent message
Holds(s) == s.type # NONE

\* C1: a receiveMessage call made by agent a never returns a message whose
\* receiver_id is another agent: it returns a message addressed to a or the
\* untouched Message() with receiver_id -1.
C1_NoMisdelivery ==
    \A a \in Agents :
        pc[a] = "r_done" =>
            \/ result[a] = DefaultMessage
            \/ result[a].receiver_id = a

\* a receive returned a sent message to its receiver while the table also
\* holds a message addressed to another agent
C1_Witness ==
    \E a \in Agents :
        /\ pc[a] = "r_done"
        /\ Holds(result[a])
        /\ result[a].receiver_id = a
        /\ \E i \in Slots : Holds(table[i]) /\ table[i].receiver_id # a

\* C2: when the table holds exactly the one message of a successful
\* send(receiver R, type T, position p) by S into the empty table, receive(T)
\* by R returns sender S, receiver R, type T, position p, and receive(T) by
\* any other agent returns the NONE sentinel.
C2_SendThenReceive ==
    [][\A a \in Agents : \A i \in Slots :
          ( /\ ReceiveScanStep(a)
            /\ Holds(intended[i])
            /\ \A j \in Slots \ {i} : intended[j] = ZeroSlot /\ table[j] = ZeroSlot
            /\ arg[a].type = intended[i].type )
          => IF intended[i].receiver_id = a
             THEN result'[a] = intended[i]
             ELSE result'[a] = DefaultMessage]_vars

\* the receiver got the single message of the table, sent by the other agent
\* at position (50,50), and the other agent's receive of that type got nothing
C2_Witness ==
    \E a \in Agents, b \in Agents :
        /\ a # b
        /\ pc[a] = "r_done" /\ outcome[a] = "scanned"
        /\ pc[b] = "r_done" /\ outcome[b] = "scanned"
        /\ Holds(table[1])
        /\ \A j \in Slots \ {1} : table[j] = ZeroSlot
        /\ table[1].sender_id = b /\ table[1].receiver_id = a
        /\ table[1].position = 50
        /\ result[a] = table[1]
        /\ arg[b].type = table[1].type
        /\ result[b] = DefaultMessage

\* the message in slot i is addressed to a and passes the filter f
Addressed(i, a, f) ==
    /\ Holds(table[i])
    /\ table[i].receiver_id = a
    /\ (f = NONE \/ table[i].type = f)

\* the age of the message in slot i is within the TTL, on the clock of its
\* sender and on the clock of agent a
Fresh(i, a) ==
    /\ current_cycle[a] - table[i].timestamp <= TTL
    /\ current_cycle[table[i].sender_id] - table[i].timestamp <= TTL

\* C3: a sent message that is still in its slot and not older than the TTL is
\* what receive(T) or an unfiltered receive by its receiver returns, unless a
\* more recently sent matching message addressed to that receiver exists.
C3_Retrievable ==
    [][\A a \in Agents : \A i \in Slots :
          ( /\ ReceiveScanStep(a)
            /\ Addressed(i, a, arg[a].type)
            /\ Fresh(i, a)
            /\ ~ \E j \in Slots : /\ Addressed(j, a, arg[a].type)
                                  /\ sentSeq[j] > sentSeq[i] )
          => result'[a] = table[i]]_vars

\* C4: receive(f) by agent a returns a copy of a slot with the greatest
\* timestamp among the sent messages addressed to a that match f, and the
\* NONE sentinel (type NONE, sender_id -1, receiver_id -1) when there is
\* none, for every agent id including 0.
C4_FreshestOrSentinel ==
    [][\A a \in Agents :
          ReceiveScanStep(a) =>
            LET M == {i \in Slots : Addressed(i, a, arg[a].type)} IN
            IF M = {}
            THEN result'[a] = DefaultMessage
            ELSE \E i \in M : /\ result'[a] = table[i]
                              /\ \A j \in M : table[j].timestamp <= table[i].timestamp]_vars

\* the age of a stored message on the clock of the agent that stamped it
Age(s) == current_cycle[s.sender_id] - s.timestamp

\* C5: a send claims only a slot that is empty or whose message is more than
\* TTL cycles old; a message whose age is within the TTL is never overwritten
\* by any agent's send, whatever the agents' cycle counters are.
C5_OnlyStaleOverwritten ==
    [][\A a \in Agents : \A i \in Slots :
          (SendScanStep(a) /\ slot'[a] = i /\ pc'[a] = "s_w1")
          => (~Holds(table[i]) \/ Age(table[i]) > TTL)]_vars

\* every slot holds a message that is not older than the TTL for agent a
TableFull(a) ==
    \A i \in Slots :
        Holds(table[i]) /\ table[i].timestamp >= current_cycle[a] - TTL

\* C6: when every slot holds a non-empty message that is not older than the
\* TTL (for the sending agent), send returns false and changes no slot.
C6_FullTableRejects ==
    [][\A a \in Agents :
          (SendScanStep(a) /\ TableFull(a))
          => /\ pc'[a] = "s_done"
             /\ ret'[a] = FALSE
             /\ table' = table]_vars

\* a send found the table full, one message being exactly TTL cycles old
C6_Witness ==
    \E a \in Agents :
        /\ pc[a] = "s_done" /\ outcome[a] = "full" /\ ret[a] = FALSE
        /\ TableFull(a)
        /\ \E i \in Slots : table[i].timestamp = current_cycle[a] - TTL

\* C7: a send or receive whose bounded wait for the mutex times out returns
\* failure (send: false, receive: the NONE sentinel) and leaves every slot
\* as it was; and no call waits for ever, even if the holder never releases.
C7_BoundedWait ==
    /\ [][\A a \in Agents :
             (pc[a] \in {"s_wait", "r_wait"} /\ outcome'[a] = "timeout")
             => /\ table' = table
                /\ pc[a] = "s_wait" => (pc'[a] = "s_done" /\ ret'[a] = FALSE)
                /\ pc[a] = "r_wait" => (pc'[a] = "r_done" /\ result'[a] = DefaultMessage)]_vars
    /\ \A a \in Agents :
          (pc[a] \in {"s_wait", "r_wait"}) ~> (pc[a] \notin {"s_wait", "r_wait"})

\* a send timed out and returned while the holder still writes its slot
C7_Witness ==
    \E a \in Agents :
        /\ pc[a] = "s_done" /\ outcome[a] = "timeout" /\ ret[a] = FALSE
        /\ mutex \in Agents \ {a}
        /\ pc[mutex] \in {"s_w1", "s_w2", "s_w3", "s_w4", "s_w5"}

\* C8: a receive never returns a message whose fields come from two
\* different sends: what it copies from a slot is the whole message the last
\* writer of that slot set out to store (or the zeroed slot).
C8_NoTornRead ==
    [][\A a \in Agents :
          ReceiveScanStep(a) =>
            \/ result'[a] = DefaultMessage
            \/ \E i \in Slots : result'[a] = intended[i]]_vars

\* a receive returned a sent message while another agent waits for the mutex
C8_Witness ==
    \E a \in Agents, b \in Agents :
        /\ a # b
        /\ pc[a] = "r_done" /\ outcome[a] = "scanned"
        /\ Holds(result[a])
        /\ pc[b] \in {"s_wait", "r_wait"}

\* C9: the mutex is held only by an agent that is inside the locked part of
\* a call: every send and receive that acquired it has released it when it
\* returns (message stored, table full, match found, no match), so once all
\* calls have returned the mutex is free.
C9_ReleasedOnExit ==
    /\ mutex # NoAgent => pc[mutex] \in HoldPcs
    /\ \A a \in Agents : pc[a] \in {"idle", "s_done", "r_done"} => mutex # a

\* a send that found the table full has returned and the mutex is free
C9_Witness ==
    \E a \in Agents :
        /\ pc[a] = "s_done" /\ outcome[a] = "full"
        /\ mutex = NoAgent

(* ----------------------- claims on the catalog ------------------------ *)

\* the registered tactics of the category of the last selectBestTactic call
Candidates == {i \in 1 .. Len(tactics) : tactics[i] = selType}

\* C10: selectBestTactic(category) evaluates only tactics of that category
\* and returns one whose score is the maximum among them; among several at
\* the maximum it returns the earliest registered; it returns no tactic
\* only when none of that category is registered.
C10_SelectBest ==
    selType # "none" =>
        /\ evaluated \subseteq Candidates
        /\ (best = 0) <=> (Candidates = {})
        /\ best # 0 =>
              /\ best \in Candidates
              /\ \A j \in Candidates :
                    /\ score[j] <= score[best]
                    /\ score[j] = score[best] => best <= j

\* two tactics of the category tie at the maximum, a third category member
\* or another tactic is registered too, and the earlier of the two was chosen
C10_Witness ==
    /\ selType # "none"
    /\ \E i \in Candidates, j \in Candidates :
          /\ i < j
          /\ best = i
          /\ score[i] = score[j]
          /\ score[i] > 0
    /\ \E k \in 1 .. Len(tactics) : k # best /\ (tactics[k] # selType \/ score[k] < score[best])

(* ------------------------- tactic evaluation -------------------------- *)
(* Scores are kept in twentieths, so that the weights 1.5 and 2.5 and the  *)
(* literals 0.75, 0.8, ... are integers: a score s of the code is 20 * s.  *)

\* a weight of whole + half * 0.5 points, after the final score / 10.0
Points(whole, half) == 2 * whole + half

\* a score written as a literal: tenths / 10
Literal(tenths) == 2 * tenths

\* play modes (special_tactics.h)
PM_STOP == 0
PM_OurKickOff == 1
PM_OppKickOff == 2
PM_OurThrowIn == 3
PM_OppThrowIn == 4
PM_OurGoalKick == 5
PM_OppGoalKick == 6
PM_OurCornerKick == 7
PM_OppCornerKick == 8
PM_OurFreeKick == 9
PM_OppFreeKick == 10
PM_OurPenaltyKick == 11
PM_OppPenaltyKick == 12
PM_Normal == 99
PlayModes == {PM_STOP, PM_OurKickOff, PM_OppKickOff, PM_OurThrowIn,
              PM_OppThrowIn, PM_OurGoalKick, PM_OppGoalKick,
              PM_OurCornerKick, PM_OppCornerKick, PM_OurFreeKick,
              PM_OppFreeKick, PM_OurPenaltyKick, PM_OppPenaltyKick,
              PM_Normal}

\* what the evaluate() functions read, one value on each side of every
\* threshold they compare with
BallXs == {-100, 0, 100}         \* ball_pos.x
VelXs == {-60, -50, 0, 50, 60}   \* ball_vel.x
Dists == {25, 50, 75, 100, 150}  \* distanceToBall(closest_id)
GoalDists == {100, 200, 300, 400, 500}  \* (ball_pos - goal_pos).length()
GoalieScores == {4, 5}           \* evaluateDefensivePosition()
ClosestIds == {-1, 0}            \* getClosestPlayerToBall()
Counts == 0 .. MaxPlayers        \* numbers of players counted by a loop

\* the opponent-goal term with the second test not chained by else
GoalDistanceTermBoth(dist_to_goal) ==
    (IF dist_to_goal < 200 THEN Points(3, 0) ELSE 0)
    + (IF dist_to_goal < 400 THEN Points(1, 1) ELSE 0)

\* if (dist_to_goal < 200) score += 3.0; else if (dist_to_goal < 400) += 1.5
GoalDistanceTerm(dist_to_goal) ==
    IF dist_to_goal < 200 THEN Points(3, 0)
    ELSE IF dist_to_goal < 400 THEN Points(1, 1) ELSE 0

\* DirectAttackTactic::evaluate
DirectAttackEvaluate(ball_x, closest_id, dist, dist_to_goal, goalie_score) ==
    (IF ball_x > 0 THEN Points(3, 0) ELSE 0)
    + (IF closest_id >= 0
       THEN (IF dist < 50 THEN Points(2, 0)
             ELSE IF dist < 100 THEN Points(1, 0) ELSE 0)
       ELSE 0)
    + GoalDistanceTerm(dist_to_goal)
    + (IF goalie_score < 5 THEN Points(2, 0) ELSE 0)

\* PassAndShootTactic::evaluate; clear_path: some teammate other than the
\* closest player has no opponent within 20 of the passing line
PassAndShootEvaluate(ball_x, forward, closest_id, clear_path, threats) ==
    (IF ball_x > 0 THEN Points(2, 0) ELSE 0)
    + (IF forward >= 2 THEN Points(3, 0)
       ELSE IF forward = 1 THEN Points(1, 0) ELSE 0)
    + (IF closest_id >= 0 /\ clear_path THEN Points(2, 1) ELSE 0)
    + (IF threats < 2 THEN Points(1, 1) ELSE 0)

\* WingAttackTactic::evaluate; on_wing: fabs(ball_pos.y) > FIELD_WIDTH_H/2
WingAttackEvaluate(on_wing, forward_player, center_defenders) ==
    (IF on_wing THEN Points(3, 0) ELSE 0)
    + (IF forward_player THEN Points(2, 0) ELSE 0)
    + (IF center_defenders >= 2 THEN Points(2, 0) ELSE 0)

\* ManMarkingTactic::evaluate
ManMarkingEvaluate(ball_x, threats) ==
    (IF ball_x < 0 THEN Points(2, 0) ELSE 0)
    + (IF threats # 0 THEN Points(3, 0) ELSE 0)
    + (IF threats <= 2 THEN Points(2, 0) ELSE 0)

\* ZoneDefenseTactic::evaluate; deep: ball_pos.x < -FIELD_LENGTH_H/2
ZoneDefenseEvaluate(ball_x, threats, in_penalty_area, deep) ==
    (IF ball_x < 0 THEN Points(2, 0) ELSE 0)
    + (IF threats >= 2 THEN Points(3, 0) ELSE 0)
    + (IF in_penalty_area \/ (deep /\ ball_x < 0) THEN Points(2, 1) ELSE 0)

\* RetreatDefenseTactic::evaluate
RetreatDefenseEvaluate(our_count, opp_count, ball_x, opp_attacking, deep) ==
    (IF our_count < opp_count THEN Points(3, 0) ELSE 0)
    + (IF ball_x > 0
       THEN (IF opp_attacking >= 2 THEN Points(2, 0) ELSE 0)
       ELSE (IF deep THEN Points(3, 0) ELSE 0))

\* KickoffTactic::evaluate
KickoffEvaluate(play_mode) ==
    IF play_mode = PM_OurKickOff THEN Literal(10)
    ELSE IF play_mode = PM_OppKickOff THEN Literal(8) ELSE Literal(0)

\* FreeKickTactic::evaluate
FreeKickEvaluate(play_mode) ==
    IF play_mode = PM_OurFreeKick THEN Literal(10)
    ELSE IF play_mode = PM_OppFreeKick THEN Literal(8) ELSE Literal(0)

\* CornerKickTactic::evaluate
CornerKickEvaluate(play_mode) ==
    IF play_mode = PM_OurCornerKick THEN Literal(10)
    ELSE IF play_mode = PM_OppCornerKick THEN Literal(8) ELSE Literal(0)

\* CounterAttackTactic::evaluate
CounterAttackEvaluate(ball_x, vel_x, our_ball_possession, opp_in_path) ==
    IF ball_x < 0 /\ vel_x > 50 /\ our_ball_possession
    THEN (IF opp_in_path < 3 THEN Literal(8) ELSE Literal(4))
    ELSE Literal(0)

\* QuickDefenseTactic::evaluate
QuickDefenseEvaluate(ball_x, vel_x, opp_ball_possession, defenders_count) ==
    IF ball_x > 0 /\ vel_x < -50 /\ opp_ball_possession
    THEN (IF defenders_count < 3 THEN Literal(9) ELSE Literal(5))
    ELSE Literal(0)

\* one call of evaluate(): the tactic, what it read, and its score
Evaluated(name, input, s) ==
    /\ evalTactic' = name
    /\ evalInput' = input
    /\ evalScore' = s

EvaluateDirectAttack ==
    \E x \in BallXs, c \in ClosestIds, d \in Dists, g \in GoalDists,
       q \in GoalieScores :
        Evaluated("DirectAttack", <<x, c, d, g, q>>,
                  DirectAttackEvaluate(x, c, d, g, q))

EvaluatePassAndShoot ==
    \E x \in BallXs, n \in Counts, c \in ClosestIds, cp \in BOOLEAN,
       th \in Counts :
        Evaluated("PassAndShoot", <<x, n, c, cp, th>>,
                  PassAndShootEvaluate(x, n, c, cp, th))

EvaluateWingAttack ==
    \E w \in BOOLEAN, f \in BOOLEAN, n \in Counts :
        Evaluated("WingAttack", <<w, f, n>>,
                  WingAttackEvaluate(w, f, n))

EvaluateManMarking ==
    \E x \in BallXs, th \in Counts :
        Evaluated("ManMarking", <<x, th>>, ManMarkingEvaluate(x, th))

EvaluateZoneDefense ==
    \E x \in BallXs, th \in Counts, pa \in BOOLEAN, dp \in BOOLEAN :
        /\ (pa \/ dp) => x < 0
        /\ Evaluated("ZoneDefense", <<x, th, pa, dp>>,
                     ZoneDefenseEvaluate(x, th, pa, dp))

EvaluateRetreatDefense ==
    \E o \in Counts, p \in Counts, x \in BallXs, n \in Counts,
       dp \in BOOLEAN :
        /\ dp => x < 0
        /\ n <= p
        /\ Evaluated("RetreatDefense", <<o, p, x, n, dp>>,
                     RetreatDefenseEvaluate(o, p, x, n, dp))

EvaluateKickoff ==
    \E m \in PlayModes :
        Evaluated("Kickoff Tactic", <<m>>, KickoffEvaluate(m))

EvaluateFreeKick ==
    \E m \in PlayModes :
        Evaluated("Free Kick Tactic", <<m>>, FreeKickEvaluate(m))

EvaluateCornerKick ==
    \E m \in PlayModes :
        Evaluated("Corner Kick Tactic", <<m>>, CornerKickEvaluate(m))

EvaluateCounterAttack ==
    \E x \in BallXs, v \in VelXs, po \in BOOLEAN, n \in Counts :
        Evaluated("Counter Attack Tactic", <<x, v, po, n>>,
                  CounterAttackEvaluate(x, v, po, n))

EvaluateQuickDefense ==
    \E x \in BallXs, v \in VelXs, po \in BOOLEAN, n \in Counts :
        Evaluated("Quick Defense Tactic", <<x, v, po, n>>,
                  QuickDefenseEvaluate(x, v, po, n))

ScoreNext ==
    \/ EvaluateDirectAttack
    \/ EvaluatePassAndShoot
    \/ EvaluateWingAttack
    \/ EvaluateManMarking
    \/ EvaluateZoneDefense
    \/ EvaluateRetreatDefense
    \/ EvaluateKickoff
    \/ EvaluateFreeKick
    \/ EvaluateCornerKick
    \/ EvaluateCounterAttack
    \/ EvaluateQuickDefense

NextScores == ScoreNext /\ UNCHANGED <<busVars, tacVars, planVars, ballVars, lateVars>>

SpecScores == Init /\ [][NextScores]_vars

(* ------------------------ claims on the scores ------------------------ *)

\* C11: the score returned by evaluate() of every tactic (attack, defense,
\* transition and special situation) lies in [0, 1], whatever the world
\* state it read.
C11_ScoreInUnitInterval ==
    evalTactic # "none" => (0 <= evalScore /\ evalScore <= Literal(10))

\* the direct attack with every term at its largest scores exactly 1.0
C11_Witness ==
    /\ evalTactic = "DirectAttack"
    /\ evalInput = <<100, 0, 25, 100, 4>>
    /\ evalScore = Literal(10)

(* ---------------------------- player_plan ----------------------------- *)
(* One agent process runs player_plan once per cycle; its teammates act   *)
(* on the shared table and the mutex between and during its calls.        *)
(* cycle_counter is only printed; the decision cycles below count it.     *)

\* robot_id passed to player_plan
Me == 0
Teammates == Agents \ {Me}

\* the three agent programs
Programs == {"robot1", "robot2", "muban"}

\* model->game_states(): a null pointer, or the referee state it reports
RefStates == {"null", "gameOff", "ourKickoff", "theirKickoff",
              "ourDirectKick", "ourIndirectKick", "theirDirectKick",
              "theirIndirectKick", "ourPenaltyKick", "theirPenaltyKick",
              "ourCornerKick", "theirCornerKick", "running"}

\* getPlayMode with the gameOff() test left out
getPlayModeNoStop(ref) ==
    IF ref = "ourKickoff" THEN PM_OurKickOff
    ELSE IF ref = "theirKickoff" THEN PM_OppKickOff
    ELSE PM_Normal

\* getPlayMode(model)
getPlayMode(ref) ==
    IF ref = "null" THEN PM_Normal
    ELSE IF ref = "gameOff" THEN PM_STOP
    ELSE IF ref = "ourKickoff" THEN PM_OurKickOff
    ELSE IF ref = "theirKickoff" THEN PM_OppKickOff
    ELSE IF ref \in {"ourDirectKick", "ourIndirectKick"} THEN PM_OurFreeKick
    ELSE IF ref \in {"theirDirectKick", "theirIndirectKick"} THEN PM_OppFreeKick
    ELSE IF ref = "ourPenaltyKick" THEN PM_OurPenaltyKick
    ELSE IF ref = "theirPenaltyKick" THEN PM_OppPenaltyKick
    ELSE PM_Normal

\* world_model->get_game_state(), which the special tactics read: the play
\* mode of the referee state
get_game_state(ref) ==
    IF ref = "ourCornerKick" THEN PM_OurCornerKick
    ELSE IF ref = "theirCornerKick" THEN PM_OppCornerKick
    ELSE getPlayMode(ref)

\* the tactics each program registers in initialize(), in order
Catalog(d) ==
    IF d = "robot2"
    THEN <<"DirectAttack", "PassAndShoot",
           "WingAttack", "ManMarking", "ZoneDefense",
           "RetreatDefense", "Kickoff Tactic", "Free Kick Tactic",
           "Corner Kick Tactic", "Counter Attack Tactic",
           "Quick Defense Tactic">>
    ELSE IF d = "robot1"
    THEN <<"DirectAttack", "PassAndShoot",
           "WingAttack", "Counter Attack Tactic">>
    ELSE << >>

AttackNames == {"DirectAttack", "PassAndShoot",
                "WingAttack"}
DefenseNames == {"ManMarking", "ZoneDefense",
                 "RetreatDefense"}
SpecialNames == {"Kickoff Tactic", "Free Kick Tactic", "Corner Kick Tactic"}
TransitionNames == {"Counter Attack Tactic", "Quick Defense Tactic"}
TacticNames == AttackNames \cup DefenseNames \cup SpecialNames \cup TransitionNames

\* getType() of each tactic
TypeOf(n) ==
    IF n \in AttackNames THEN "ATTACK"
    ELSE IF n \in DefenseNames THEN "DEFENSE"
    ELSE IF n \in SpecialNames THEN "SPECIAL_SITUATION"
    ELSE "TRANSITION"

\* tactic_factory->selectBestTactic(type) over the program's catalog, where
\* sc[n] is what evaluate() of tactic n returns in this cycle
Select(d, sc, type) ==
    LET cat == Catalog(d)
        i == selectBestTactic([j \in 1 .. Len(cat) |-> TypeOf(cat[j])],
                              [j \in 1 .. Len(cat) |-> sc[cat[j]]], type)
    IN IF i = 0 THEN NoBest ELSE [name |-> cat[i], score |-> sc[cat[i]]]

\* the tactics selectBestTactic(type) evaluates
EvaluatedBy(d, type) ==
    {n \in TacticNames : TypeOf(n) = type /\ \E j \in 1 .. Len(Catalog(d)) : Catalog(d)[j] = n}

\* the scores of the special tactics under the referee state
SpecialScores(ref) ==
    [n \in TacticNames |->
        IF n = "Kickoff Tactic" THEN KickoffEvaluate(get_game_state(ref))
        ELSE IF n = "Free Kick Tactic" THEN FreeKickEvaluate(get_game_state(ref))
        ELSE IF n = "Corner Kick Tactic" THEN CornerKickEvaluate(get_game_state(ref))
        ELSE 0]

\* the scores of the transition tactics in world w
TransitionScores(w) ==
    [n \in TacticNames |->
        IF n = "Counter Attack Tactic" THEN w.counter
        ELSE IF n = "Quick Defense Tactic" THEN w.quick
        ELSE 0]

\* task.target_pos = getPosition(robot_id); task.orientate = getOrientation
HoldTask(t) == [t EXCEPT !.from = "hold", !.target_pos = "current",
                         !.orientate = "current"]

\* our_players->createMoveTask(robot_id, pos)
MoveTask(from, pos) ==
    [DefaultTask EXCEPT !.from = from, !.target_pos = pos,
                        !.orientate = "to_ball"]

\* the PlayerTask a tactic's execute() builds
TacticTask(n, kick) ==
    [DefaultTask EXCEPT !.from = n, !.target_pos = "tactic",
                        !.orientate = "tactic", !.needKick = kick]

\* catch (const std::exception& e): the faults the handler catches
Catches(kind) == kind = "std::exception"

\* a fault is a std::exception (thrown by the library calls of a tactic) or
\* anything else a tactic raises
FaultKinds == {"std::exception", "other"}
FaultSites == {"none", "evaluate", "execute"}

\* the possession broadcast: sendMessage to every other robot in id order,
\* stopping at the first send that fails
RECURSIVE BroadcastFrom(_, _, _)
BroadcastFrom(tbl, i, cyc) ==
    IF i > NumAgents - 1 THEN [table |-> tbl, ok |-> TRUE]
    ELSE IF i = Me THEN BroadcastFrom(tbl, i + 1, cyc)
    ELSE IF FindSlot(tbl, cyc) = 0 THEN [table |-> tbl, ok |-> FALSE]
    ELSE BroadcastFrom(
             [tbl EXCEPT ![FindSlot(tbl, cyc)] =
                 NewMessage(Me, [receiver |-> i, type |-> "BALL_POSSESSION",
                                 position |-> 50], cyc)],
             i + 1, cyc)

\* the possible results of selectBestTactic(ATTACK) with the ball at x, over
\* everything else the three evaluate() functions read (closest_id is read
\* by two of them)
BestAttack ==
    [x \in BallXs |->
        UNION {
            {Select("robot2",
                    [n \in TacticNames |->
                        IF n = "DirectAttack" THEN s1
                        ELSE IF n = "PassAndShoot" THEN s2
                        ELSE IF n = "WingAttack" THEN s3 ELSE 0],
                    "ATTACK") :
                <<s1, s2, s3>> \in
                    {DirectAttackEvaluate(x, c, d, g, q) :
                        <<d, g, q>> \in Dists \X GoalDists \X GoalieScores}
                    \X {PassAndShootEvaluate(x, np, c, cp, th) :
                        <<np, cp, th>> \in Counts \X BOOLEAN \X Counts}
                    \X {WingAttackEvaluate(w, f, cd) :
                        <<w, f, cd>> \in BOOLEAN \X BOOLEAN \X Counts}} :
            c \in ClosestIds}]

\* the same for selectBestTactic(DEFENSE) (the threat count and the depth
\* of the ball are read by two of the three)
BestDefense ==
    [x \in BallXs |->
        UNION {
            {Select("robot2",
                    [n \in TacticNames |->
                        IF n = "ManMarking"
                        THEN ManMarkingEvaluate(x, t[1])
                        ELSE IF n = "ZoneDefense" THEN s2
                        ELSE IF n = "RetreatDefense" THEN s3 ELSE 0],
                    "DEFENSE") :
                <<s2, s3>> \in
                    {ZoneDefenseEvaluate(x, t[1], pa, t[2]) :
                        pa \in {b \in BOOLEAN : b => x < 0}}
                    \X {RetreatDefenseEvaluate(o, p, x, na, t[2]) :
                        <<o, p, na>> \in
                            {u \in Counts \X Counts \X Counts : u[3] <= u[2]}}} :
            t \in {u \in Counts \X BOOLEAN : u[2] => x < 0}}]

\* ball_vel.x on either side of the 50 and -50 the transition tests compare
\* with, and on the 50 itself
PlanVelXs == {v \in VelXs : v = 50 \/ v > 50 \/ v < -50}

\* the scores CounterAttackTactic and QuickDefenseTactic can return with
\* the ball at x moving at v, over the possession and the player counts
CounterScores(x, v) ==
    {CounterAttackEvaluate(x, v, po, n) : <<po, n>> \in BOOLEAN \X Counts}
QuickScores(x, v) ==
    {QuickDefenseEvaluate(x, v, po, n) : <<po, n>> \in BOOLEAN \X Counts}

\* the fault leaves the try block: the handler holds the position, or the
\* fault leaves player_plan
Raise(kind) ==
    /\ fault' = kind
    /\ ppc' = "done"
    /\ IF Catches(kind)
       THEN /\ task' = HoldTask(task)
            /\ path' = "caught"
            /\ returned' = 1
       ELSE /\ task' = task
            /\ path' = "escaped"
            /\ returned' = 0

\* one stage of the priority chain: the tactics evs are evaluated, sel is
\* the one selected, and it is executed when fires holds
TryTactic(cat, evs, sel, fires, at, kind, kick, pathName, nextpc) ==
    /\ evald' = evald \cup evs
    /\ IF at = "evaluate"
       THEN /\ Raise(kind)
            /\ UNCHANGED <<bestOf, execd>>
       ELSE /\ bestOf' = [bestOf EXCEPT ![cat] = sel]
            /\ IF fires
               THEN /\ execd' = Append(execd, sel.name)
                    /\ IF at = "execute"
                       THEN Raise(kind)
                       ELSE /\ task' = TacticTask(sel.name, kick)
                            /\ path' = pathName
                            /\ returned' = 1
                            /\ ppc' = "done"
                            /\ UNCHANGED fault
               ELSE /\ at = "none"
                    /\ ppc' = nextpc
                    /\ UNCHANGED <<execd, task, path, returned, fault>>
    /\ UNCHANGED <<initialized, dll, tracked, world, pass_msg, sent_ok, prevFault>>
    /\ UNCHANGED <<busVars, tacVars, scoreVars, ballVars, lateVars>>

\* the start of player_plan: initialize() on the first call, the PM_STOP
\* test, the possession broadcast and the pass-intention check
PlanCall(d, ref, bx, vx, cs, qs) ==
    LET free == CanAcquire(mutex, Me)
        \* Communication::initialize: memset under the mutex, if it was got
        tbl0 == IF ~initialized /\ free THEN [i \in Slots |-> ZeroSlot] ELSE table
        bc == IF free THEN BroadcastFrom(tbl0, 0, current_cycle[Me])
              ELSE [table |-> tbl0, ok |-> FALSE]
        msg == IF free THEN receiveMessage(bc.table, Me, "PASS_INTENTION")
               ELSE DefaultMessage
        \* ball_x: what model->get_ball_pos() returns during this call
        w == [ref |-> ref, ball_x |-> bx, counter |-> cs, quick |-> qs]
    IN
    /\ ppc = "idle"
    /\ IF initialized THEN d = dll ELSE d \in Programs
    /\ dll' = d
    /\ initialized' = TRUE
    \* new BallTools(model) inside initialize(): the only updateState() call
    /\ tracked' = IF initialized THEN tracked ELSE [ball_x |-> bx, vel_x |-> vx]
    /\ is_initialized' = [is_initialized EXCEPT ![Me] = TRUE]
    /\ world' = w
    /\ IF getPlayMode(ref) = PM_STOP
       THEN /\ task' = HoldTask(task)
            /\ path' = "stop"
            /\ returned' = 1
            /\ ppc' = "done"
            /\ table' = tbl0
            /\ UNCHANGED <<pass_msg, sent_ok>>
       ELSE /\ table' = bc.table
            /\ sent_ok' = bc.ok
            /\ pass_msg' = msg
            /\ IF msg.receiver_id = Me
               THEN /\ task' = MoveTask("reception", "pass_msg.position")
                    /\ path' = "pass"
                    /\ returned' = 1
                    /\ ppc' = "done"
               ELSE /\ ppc' = IF d = "robot2" THEN "special"
                              ELSE IF d = "robot1" THEN "counter"
                              ELSE "default"
                    /\ UNCHANGED <<task, path, returned>>
    /\ UNCHANGED <<evald, execd, bestOf, fault, prevFault>>
    /\ UNCHANGED <<mutex, current_cycle, pc, arg, slot, ret, result,
                   intended, sentSeq, outcome, ncalls>>
    /\ UNCHANGED <<tacVars, scoreVars, ballVars, lateVars>>

\* robot2: selectBestTactic(SPECIAL_SITUATION), executed above 0.5
PlanSpecial(at, kind, kick) ==
    /\ ppc = "special"
    /\ LET sel == Select(dll, SpecialScores(world.ref), "SPECIAL_SITUATION")
       IN TryTactic("special", EvaluatedBy(dll, "SPECIAL_SITUATION"), sel,
                    sel.name # "none" /\ sel.score > Literal(5),
                    at, kind, kick, "special", "transition")

\* robot2: selectBestTactic(TRANSITION), executed above 0.7
PlanTransition(at, kind, kick) ==
    /\ ppc = "transition"
    /\ LET sel == Select(dll, TransitionScores(world), "TRANSITION")
       IN TryTactic("transition", EvaluatedBy(dll, "TRANSITION"), sel,
                    sel.name # "none" /\ sel.score > Literal(7),
                    at, kind, kick, "transition", "category")

\* robot2: selectBestTactic(DEFENSE or ATTACK), executed whenever a tactic
\* of the category is registered
PlanCategory(at, kind, kick) ==
    /\ ppc = "category"
    /\ \E sel \in (IF tracked.ball_x < 0 THEN BestDefense[tracked.ball_x]
                   ELSE BestAttack[tracked.ball_x]) :
        TryTactic("category",
                  EvaluatedBy(dll, IF tracked.ball_x < 0 THEN "DEFENSE" ELSE "ATTACK"),
                  sel, sel.name # "none", at, kind, kick, "category", "default")

\* robot1: the counter attack looked up by name when the ball is in our
\* half and moves forward, executed above 0.6
PlanCounter(at, kind, kick) ==
    /\ ppc = "counter"
    /\ IF tracked.ball_x < 0 /\ tracked.vel_x > 50
       THEN TryTactic("transition", {"Counter Attack Tactic"},
                      [name |-> "Counter Attack Tactic", score |-> world.counter],
                      world.counter > Literal(6),
                      at, kind, kick, "transition", "attack")
       ELSE /\ at = "none"
            /\ ppc' = "attack"
            /\ UNCHANGED <<initialized, dll, tracked, world, pass_msg, sent_ok, evald,
                           execd, bestOf, task, path, returned, fault, prevFault>>
            /\ UNCHANGED <<busVars, tacVars, scoreVars, ballVars, lateVars>>

\* robot1: selectBestTactic(ATTACK) when the ball is in the opponent half,
\* executed above 0.5
PlanAttack(at, kind, kick) ==
    /\ ppc = "attack"
    /\ IF tracked.ball_x > 0
       THEN \E sel \in BestAttack[tracked.ball_x] :
               TryTactic("category", EvaluatedBy(dll, "ATTACK"), sel,
                         sel.name # "none" /\ sel.score > Literal(5),
                         at, kind, kick, "category", "default")
       ELSE /\ at = "none"
            /\ ppc' = "default"
            /\ UNCHANGED <<initialized, dll, tracked, world, pass_msg, sent_ok, evald,
                           execd, bestOf, task, path, returned, fault, prevFault>>
            /\ UNCHANGED <<busVars, tacVars, scoreVars, ballVars, lateVars>>

\* the default behaviour: the player closest to the ball shoots, passes,
\* dribbles forward or goes to the ball; any other player takes a
\* strategic position (muban.cpp only dribbles when it holds the ball)
PlanDefault(closest, can_hold, chance) ==
    /\ ppc = "default"
    /\ dll = "muban" => chance = "none"
    /\ task' =
        IF ~closest THEN MoveTask("heuristic", "strategic")
        ELSE IF ~can_hold THEN MoveTask("heuristic", "ball")
        ELSE IF chance = "shoot"
        THEN [DefaultTask EXCEPT !.from = "heuristic", !.target_pos = "goal",
                                 !.orientate = "goal", !.needKick = TRUE]
        ELSE IF chance = "pass"
        THEN [DefaultTask EXCEPT !.from = "heuristic", !.target_pos = "teammate",
                                 !.orientate = "teammate", !.needKick = TRUE]
        ELSE [DefaultTask EXCEPT !.from = "heuristic", !.target_pos = "forward",
                                 !.orientate = "forward", !.needCb = TRUE]
    /\ path' = "default"
    /\ returned' = 1
    /\ ppc' = "done"
    /\ UNCHANGED <<initialized, dll, tracked, world, pass_msg, sent_ok, evald, execd,
                   bestOf, fault, prevFault>>
    /\ UNCHANGED <<busVars, tacVars, scoreVars, ballVars, lateVars>>

\* the caller has the task (or the fault); the locals of the call are gone
PlanReturn ==
    /\ ppc = "done"
    /\ ppc' = "idle"
    /\ prevFault' = fault
    /\ world' = NoWorld
    /\ pass_msg' = DefaultMessage
    /\ sent_ok' = FALSE
    /\ evald' = {}
    /\ execd' = << >>
    /\ bestOf' = NoneSelected
    /\ task' = DefaultTask
    /\ path' = "none"
    /\ returned' = 0
    /\ fault' = "none"
    /\ UNCHANGED <<initialized, dll, tracked>>
    /\ UNCHANGED <<busVars, tacVars, scoreVars, ballVars, lateVars>>

\* a teammate's process gets the mutex between two calls of this agent
TeammateLocks(b) ==
    /\ ppc = "idle"
    /\ CanAcquire(mutex, b)
    /\ mutex # b
    /\ mutex' = b
    /\ UNCHANGED <<table, is_initialized, current_cycle, pc, arg, slot, ret,
                   result, intended, sentSeq, outcome, ncalls>>
    /\ UNCHANGED <<tacVars, scoreVars, planVars, ballVars, lateVars>>

\* the teammate's sendMessage(r, PASS_INTENTION, position) while it holds
\* the mutex
TeammateSends(b, r) ==
    /\ ppc = "idle"
    /\ mutex = b
    /\ FindSlot(table, current_cycle[b]) # 0
    /\ table' = [table EXCEPT ![FindSlot(table, current_cycle[b])] =
                    NewMessage(b, [receiver |-> r, type |-> "PASS_INTENTION",
                                   position |-> 50], current_cycle[b])]
    /\ UNCHANGED <<mutex, is_initialized, current_cycle, pc, arg, slot, ret,
                   result, intended, sentSeq, outcome, ncalls>>
    /\ UNCHANGED <<tacVars, scoreVars, planVars, ballVars, lateVars>>

\* the teammate's ReleaseMutex
TeammateUnlocks(b) ==
    /\ ppc = "idle"
    /\ mutex = b
    /\ mutex' = ReleaseMutex(mutex, b)
    /\ UNCHANGED <<table, is_initialized, current_cycle, pc, arg, slot, ret,
                   result, intended, sentSeq, outcome, ncalls>>
    /\ UNCHANGED <<tacVars, scoreVars, planVars, ballVars, lateVars>>

PlanNext ==
    \/ \E d \in Programs, ref \in RefStates, bx \in BallXs, vx \in PlanVelXs :
        \E cs \in CounterScores(bx, vx), qs \in QuickScores(bx, vx) :
            PlanCall(d, ref, bx, vx, cs, qs)
    \/ \E at \in FaultSites, kind \in FaultKinds, kick \in BOOLEAN :
        \/ PlanSpecial(at, kind, kick)
        \/ PlanTransition(at, kind, kick)
        \/ PlanCategory(at, kind, kick)
        \/ PlanCounter(at, kind, kick)
        \/ PlanAttack(at, kind, kick)
    \/ \E closest \in BOOLEAN, can_hold \in BOOLEAN,
          chance \in {"shoot", "pass", "none"} :
            PlanDefault(closest, can_hold, chance)
    \/ PlanReturn
    \/ \E b \in Teammates :
        \/ TeammateLocks(b)
        \/ \E r \in Agents \ {b} : TeammateSends(b, r)
        \/ TeammateUnlocks(b)

SpecPlan == Init /\ [][PlanNext]_vars

(* --------------------- claims on the decision loop -------------------- *)

\* the call has reached a return statement, or a fault has left it
Done == ppc = "done"

\* the special tactic that matches a restart, "none" when ref is no restart
RestartTactic(ref) ==
    IF ref \in {"ourKickoff", "theirKickoff"} THEN "Kickoff Tactic"
    ELSE IF ref \in {"ourDirectKick", "ourIndirectKick", "theirDirectKick",
                     "theirIndirectKick"} THEN "Free Kick Tactic"
    ELSE IF ref \in {"ourCornerKick", "theirCornerKick"} THEN "Corner Kick Tactic"
    ELSE "none"

\* the execute() calls of the cycle that belong to the tactics in names
Executed(names) == {i \in 1 .. Len(execd) : execd[i] \in names}

\* the score of the best transition tactic in the world of the cycle
BestTransitionScore ==
    IF world.counter >= world.quick THEN world.counter ELSE world.quick

\* the command holds the agent where it stands
HoldsPosition ==
    /\ task.target_pos = "current"
    /\ task.orientate = "current"
    /\ ~task.needKick
    /\ ~task.needCb

\* C12: in the decision loop of robot2, whenever the referee state is a
\* restart (kickoff, free kick or corner kick of either side), the command
\* returned for the cycle is the one the matching special tactic produced,
\* whatever the mailbox holds (stated for the cycles in which no fault is
\* raised).
C12_RestartForcesSpecial ==
    (Done /\ dll = "robot2" /\ fault = "none"
          /\ RestartTactic(world.ref) # "none")
        => (returned = 1 /\ task.from = RestartTactic(world.ref))

C14_TransitionIffAboveThreshold ==
    (Done /\ dll = "robot2" /\ fault = "none" /\ world.ref = "running")
        => /\ (Executed(TransitionNames) # {}) <=> (BestTransitionScore > Literal(7))
           /\ (Executed(TransitionNames) # {})
                  => Executed(AttackNames \cup DefenseNames) = {}

\* C15: when no special or transition tactic fires, the best attack or
\* defense tactic is executed only if its score exceeds the activation
\* threshold (0.5), and otherwise the default heuristic produces the
\* command (stated for the cycles in which no fault is raised).
C15_CategoryOnlyAboveThreshold ==
    (Done /\ fault = "none" /\ bestOf.category.name # "none")
        => IF bestOf.category.score > Literal(5)
           THEN path = "category" /\ task.from = bestOf.category.name
           ELSE path = "default" /\ task.from = "heuristic"

\* C16: any fault raised while a tactic is evaluated or executed is caught
\* in that cycle, which returns the hold-current-position command; the
\* fault never leaves player_plan, and the cycle after it runs as usual.
C16_FaultCaught ==
    /\ (Done /\ fault # "none")
           => (path = "caught" /\ returned = 1 /\ HoldsPosition)
    /\ (Done /\ prevFault # "none" /\ fault = "none") => returned = 1

\* C17: every call of player_plan returns exactly one command, on every
\* path and also when the broadcast fails or the lock times out, and at
\* most one tactic's execute() is run in it.
C17_ExactlyOneCommand ==
    Done => (returned = 1 /\ task.from # "none" /\ Len(execd) <= 1)

(* ------------------------------ BallTools ----------------------------- *)

\* Quantities are integers: a speed counts tenths of a length unit per
\* second, a time thirds of a second, a length six-hundredths of a length
\* unit and an angle twenty-fourths of pi.  In these units the friction
\* coefficient 0.03 turns speed / friction_coef into 10 * speed and
\* speed * time - 0.5 * friction_coef * time * time into
\* 20 * speed * time - time * time.

\* a whole number of seconds as a time
Seconds(n) == 3 * n

\* point2f difference
Minus(a, b) == [x |-> a.x - b.x, y |-> a.y - b.y]

\* the largest r with r * r <= n, for lo * lo <= n and n < hi * hi
RECURSIVE sqrtBetween(_, _, _)
sqrtBetween(n, lo, hi) ==
    IF hi - lo <= 1 THEN lo
    ELSE LET mid == (lo + hi) \div 2
         IN IF mid * mid <= n THEN sqrtBetween(n, mid, hi)
            ELSE sqrtBetween(n, lo, mid)

\* sqrt of a number below 46341 * 46341; exact on the squares
sqrt(n) == sqrtBetween(n, 0, 46341)

fabs(a) == IF a < 0 THEN -a ELSE a

\* point2f::length
length(v) == sqrt(v.x * v.x + v.y * v.y)

\* point2f::angle, atan2(y, x), for a vector on an axis or on a diagonal
angle(v) ==
    IF v.y = 0 THEN (IF v.x >= 0 THEN 0 ELSE 24)
    ELSE IF v.x = 0 THEN (IF v.y > 0 THEN 12 ELSE -12)
    ELSE IF v.y > 0 THEN (IF v.x > 0 THEN 6 ELSE 18)
    ELSE (IF v.x > 0 THEN -6 ELSE -18)

\* point2f(cos(direction), sin(direction)) for a multiple of pi / 2
dir_vector(direction) ==
    [x |-> IF direction = 0 THEN 1 ELSE IF fabs(direction) = 24 THEN -1 ELSE 0,
     y |-> IF direction = 12 THEN 1 ELSE IF direction = -12 THEN -1 ELSE 0]

\* rint(n / d) for d > 0: the nearest integer, the even one at a tie
rint(n, d) ==
    LET q == n \div d
        r == n % d
    IN IF 2 * r < d THEN q
       ELSE IF 2 * r > d THEN q + 1
       ELSE IF q % 2 = 0 THEN q ELSE q + 1

\* a -= M_2PI * rint(a / M_2PI)
anglemod(a) == a - 48 * rint(a, 48)

\* distance = 0.5 * speed * stopping_time, with the 0.5 left out
restingDistanceWhole(speed, stopping_time) == 20 * speed * stopping_time

\* distance = 0.5 * speed * stopping_time
restingDistance(speed, stopping_time) == 10 * speed * stopping_time

predictPosition(b, time) ==
    IF b.speed < 10 THEN b.position
    ELSE LET stopping_time == 10 * b.speed
             distance == IF time >= stopping_time
                         THEN restingDistance(b.speed, stopping_time)
                         ELSE 20 * b.speed * time - time * time
         IN [x |-> b.position.x + dir_vector(b.direction).x * distance,
             y |-> b.position.y + dir_vector(b.direction).y * distance]

predictTimeToPosition(b, target) ==
    IF b.speed < 10 THEN Seconds(-1)
    ELSE LET distance == length(Minus(target, b.position))
             max_distance == 100 * b.speed * b.speed
         IN IF distance > max_distance THEN Seconds(-1)
            ELSE LET delta == 100 * b.speed * b.speed - distance
                     t1 == 10 * b.speed + sqrt(delta)
                     t2 == 10 * b.speed - sqrt(delta)
                 IN IF delta < 0 THEN Seconds(-1)
                    ELSE IF t1 > 0 /\ t2 > 0 THEN (IF t1 < t2 THEN t1 ELSE t2)
                    ELSE IF t1 > 0 THEN t1
                    ELSE IF t2 > 0 THEN t2
                    ELSE Seconds(-1)

\* speed > speed_threshold, 10.0 by default
isMoving(b) == b.speed > 100

directionTo(b, target) == angle(Minus(target, b.position))

\* the parameter hides the member direction: both operands of the
\* subtraction are the parameter
isMovingTowards(b, direction, tolerance) ==
    IF ~isMoving(b) THEN FALSE
    ELSE LET angle_diff == fabs(anglemod(direction - direction))
         IN angle_diff < tolerance

isMovingTowardsTarget(b, target, tolerance) ==
    IF ~isMoving(b) THEN FALSE
    ELSE LET target_direction == directionTo(b, target)
         IN isMovingTowards(b, target_direction, tolerance)

isMovingAwayFromTarget(b, target, tolerance) ==
    IF ~isMoving(b) THEN FALSE
    ELSE LET target_direction == directionTo(b, target)
             angle_diff == fabs(anglemod(b.direction - target_direction))
         IN angle_diff > 24 - tolerance

(* -------------------------------- Ball -------------------------------- *)

\* speed < threshold, 5.0f by default
isStationary(b) == b.speed < 50

getDirection(b) == IF b.speed > 1 THEN angle(b.velocity) ELSE 0

isMovingToward(b, target, angle_tolerance) ==
    IF isStationary(b) THEN FALSE
    ELSE LET ball_dir == getDirection(b)
             target_dir == angle(Minus(target, b.position))
         IN fabs(anglemod(ball_dir - target_dir)) < angle_tolerance

isMovingAway(b, target, angle_tolerance) ==
    IF isStationary(b) THEN FALSE
    ELSE LET ball_dir == getDirection(b)
             target_dir == angle(Minus(target, b.position))
         IN fabs(anglemod(ball_dir - target_dir)) > 24 - angle_tolerance

(* ------------------------ queries on the ball ------------------------- *)

\* the velocities the WorldModel hands to updateState: at rest, or along an
\* axis at a speed on either side of each threshold
BallVelocities ==
    {[x |-> s * h[1], y |-> s * h[2]] :
        s \in {0, 9, 10, 50, 100, 110},
        h \in {<<1, 0>>, <<0, 1>>, <<-1, 0>>, <<0, -1>>}}

\* targets relative to the ball whose distance is a whole number
ReachOffsets == {[x |-> 0, y |-> 0], [x |-> 3600, y |-> 0],
                 [x |-> 0, y |-> -6400], [x |-> 6000, y |-> 8000],
                 [x |-> 10001, y |-> 0], [x |-> -40000, y |-> 0]}

\* targets relative to the ball on an axis or on a diagonal
BearingOffsets == {[x |-> 600, y |-> 0], [x |-> 600, y |-> 600],
                   [x |-> 0, y |-> 600], [x |-> -600, y |-> 600],
                   [x |-> -600, y |-> 0], [x |-> 0, y |-> -600]}

\* the times asked of predictPosition, the answer of a preceding
\* predictTimeToPosition among them
PredictTimes ==
    {0, 1, 50, 99, 100, 101, 200, 300}
        \cup {calls[i].out : i \in {j \in DOMAIN calls :
                 calls[j].fn = "predictTimeToPosition" /\ calls[j].out >= 0}}

\* the query is remembered; a prediction keeps the query before it
Logged(c) ==
    calls' = IF c.fn = "predictPosition" /\ calls # << >>
             THEN <<calls[Len(calls)], c>>
             ELSE <<c>>

\* the members the predictor and the directional predicates read
updateState(pos, vel) ==
    /\ ball' = [position |-> pos, velocity |-> vel,
                speed |-> length(vel), direction |-> angle(vel)]
    /\ calls' = << >>
    /\ UNCHANGED <<busVars, tacVars, scoreVars, planVars, lateVars>>

PredictPosition(time) ==
    /\ Logged([fn |-> "predictPosition", time |-> time,
               out |-> predictPosition(ball, time)])
    /\ UNCHANGED <<busVars, tacVars, scoreVars, planVars, lateVars, ball>>

PredictTimeToPosition(target) ==
    /\ Logged([fn |-> "predictTimeToPosition", target |-> target,
               out |-> predictTimeToPosition(ball, target)])
    /\ UNCHANGED <<busVars, tacVars, scoreVars, planVars, lateVars, ball>>

\* the four directional predicates asked about one target
DirectionalPredicates(target, tolerance) ==
    /\ Logged([fn |-> "isMoving", target |-> target, tolerance |-> tolerance,
               towardsTarget |-> isMovingTowardsTarget(ball, target, tolerance),
               awayFromTarget |-> isMovingAwayFromTarget(ball, target, tolerance),
               toward |-> isMovingToward(ball, target, tolerance),
               away |-> isMovingAway(ball, target, tolerance)])
    /\ UNCHANGED <<busVars, tacVars, scoreVars, planVars, lateVars, ball>>

(* ----------------------------- possession ----------------------------- *)

\* OppPlayers::updateState and Teammates::updateState: hasBall of a tracked
\* player, with the control threshold 50.0 and the cone pi/4
hasBall(b, p) ==
    LET dist == length(Minus(b.position, p.position))
        angle_diff == fabs(anglemod(angle(Minus(b.position, p.position))
                                    - p.orientation))
    IN dist < 30000 /\ angle_diff < 6

\* BallTools::isPlayerControllingBall, for a player_dir that is a multiple
\* of pi / 2
isPlayerControllingBall(b, player_pos, player_dir) ==
    LET dist == length(Minus(b.position, player_pos))
        player_front_dir == dir_vector(player_dir)
        to_ball == Minus(b.position, player_pos)
        dot_product == to_ball.x * player_front_dir.x
                       + to_ball.y * player_front_dir.y
    IN IF dist > 12000 THEN FALSE ELSE dot_product > 0

\* BallTools::checkIfControlled over the players that exist
checkIfControlled(b, players) ==
    \E p \in players : isPlayerControllingBall(b, p.position, p.orientation)

\* players the WorldModel reports around the ball: 10 ahead of the ball
\* along their heading or across it, 10 off on the diagonal, 30 or 60 away
PlayersNear(b) ==
    {[position |-> Minus(b.position, to_ball), orientation |-> o] :
        to_ball \in {[x |-> 6000, y |-> 0], [x |-> 6000, y |-> 6000],
                     [x |-> 18000, y |-> 0], [x |-> 36000, y |-> 0]},
        o \in {0, 12}}

\* the possession tests of one cycle over the same players
Possession(players) ==
    /\ Logged([fn |-> "checkIfControlled", players |-> players,
               holders |-> {p \in players : hasBall(ball, p)},
               isControlled |-> checkIfControlled(ball, players)])
    /\ UNCHANGED <<busVars, tacVars, scoreVars, planVars, lateVars, ball>>

BallNext ==
    \/ \E pos \in {[x |-> 0, y |-> 0], [x |-> 6000, y |-> -12000]},
          vel \in BallVelocities :
        updateState(pos, vel)
    \/ \E time \in PredictTimes : PredictPosition(time)
    \/ \E off \in ReachOffsets :
        PredictTimeToPosition([x |-> ball.position.x + off.x,
                               y |-> ball.position.y + off.y])
    \* pi/8 and pi/6, the defaults, and a tolerance above pi/2
    \/ \E off \in BearingOffsets, tolerance \in {3, 4, 13} :
        DirectionalPredicates([x |-> ball.position.x + off.x,
                               y |-> ball.position.y + off.y], tolerance)
    \/ \E players \in {ps \in SUBSET PlayersNear(ball) : Cardinality(ps) <= 2} :
        Possession(players)

SpecBall == Init /\ [][BallNext]_vars

(* ------------------------- claims on the ball ------------------------- *)

Predictions == {i \in DOMAIN calls : calls[i].fn = "predictPosition"}

\* how far a predicted position lies from the ball along its velocity
Travelled(c) ==
    IF ball.speed = 0 THEN 0
    ELSE ((c.out.x - ball.position.x) * ball.velocity.x
          + (c.out.y - ball.position.y) * ball.velocity.y) \div ball.speed

\* how far it lies from the line through the ball along its velocity
Sideways(c) ==
    (c.out.x - ball.position.x) * ball.velocity.y
        - (c.out.y - ball.position.y) * ball.velocity.x

\* C18: below the stationary speed 1.0 predictPosition returns the ball's
\* position; otherwise the predicted displacement lies along the heading, is
\* the resting displacement 0.5 * speed * stopTime from stopTime = speed / k
\* on, never decreases with the time asked, and never grows faster than the
\* initial speed, so that it makes no jump at stopTime.
C18_PredictedDisplacement ==
    \A i \in Predictions :
        LET c == calls[i]
            stopTime == 10 * ball.speed
        IN IF ball.speed < 10 THEN c.out = ball.position
           ELSE /\ Sideways(c) = 0
                /\ Travelled(c) >= 0
                /\ c.time >= stopTime => Travelled(c) = 10 * ball.speed * stopTime
                /\ \A j \in Predictions :
                       calls[j].time <= c.time =>
                           /\ Travelled(calls[j]) <= Travelled(c)
                           /\ Travelled(c) - Travelled(calls[j])
                                <= 20 * ball.speed * (c.time - calls[j].time)

\* a ball of speed 1.0 asked one third of a second before it stops and then
\* at the time it stops
C18_Witness ==
    /\ ball.speed = 10
    /\ Len(calls) = 2
    /\ calls[1].fn = "predictPosition" /\ calls[1].time = 99
    /\ calls[2].fn = "predictPosition" /\ calls[2].time = 100
    /\ Travelled(calls[1]) = 9999
    /\ Travelled(calls[2]) = 10000

\* C19: predictTimeToPosition answers -1 exactly when the target is farther
\* than the ball can travel, 0.5 * speed^2 / k; every other answer is the
\* smaller positive root of speed * t - 0.5 * k * t^2 = distance (no later
\* than the stopping time unless the distance is 0), and predictPosition
\* asked at that time lies at the target's distance.  Both equalities are
\* taken within the distance the ball covers at its initial speed in one
\* third of a second.
C19_TimeToPosition ==
    \A i \in DOMAIN calls :
        calls[i].fn = "predictTimeToPosition" =>
            LET c == calls[i]
                distance == length(Minus(c.target, ball.position))
            IN /\ (c.out = Seconds(-1)) <=> (distance > 100 * ball.speed * ball.speed)
               /\ (c.out # Seconds(-1)) =>
                      /\ c.out > 0
                      /\ distance > 0 => c.out <= 10 * ball.speed
                      /\ fabs(20 * ball.speed * c.out - c.out * c.out - distance)
                           <= 20 * ball.speed
               /\ \A j \in Predictions :
                      (j > i /\ calls[j].time = c.out) =>
                          fabs(Travelled(calls[j]) - distance) <= 20 * ball.speed

DirectionQueries == {i \in DOMAIN calls : calls[i].fn = "isMoving"}

\* the angle between the ball's heading and the bearing to the target
HeadingToBearing(c) ==
    fabs(anglemod(angle(ball.velocity) - angle(Minus(c.target, ball.position))))

\* C20: isMovingTowardsTarget (BallTools) and isMovingToward (Ball) hold
\* exactly when the ball is moving and the angle between its heading and
\* the bearing to the target is below the tolerance; isMovingAwayFromTarget
\* and isMovingAway exactly when it is moving and that angle is above
\* pi - tolerance; a ball that is not moving satisfies none of them, and
\* below a tolerance of pi/2 no ball moves toward and away from one target.
C20_DirectionalPredicates ==
    \A i \in DirectionQueries :
        LET c == calls[i]
            diff == HeadingToBearing(c)
        IN /\ c.towardsTarget <=> (ball.speed > 100 /\ diff < c.tolerance)
           /\ c.awayFromTarget <=> (ball.speed > 100 /\ diff > 24 - c.tolerance)
           /\ c.toward <=> (ball.speed >= 50 /\ diff < c.tolerance)
           /\ c.away <=> (ball.speed >= 50 /\ diff > 24 - c.tolerance)
           /\ c.tolerance < 12 =>
                  /\ ~(c.towardsTarget /\ c.awayFromTarget)
                  /\ ~(c.toward /\ c.away)

PossessionTests == {i \in DOMAIN calls : calls[i].fn = "checkIfControlled"}

\* C21: a tracked player has the ball exactly when it is closer to the ball
\* than the control radius 50 and the angle between its heading and the
\* bearing to the ball is below pi/4, and the ball tracker's isControlled
\* is true exactly when some tracked player has the ball.
C21_PossessionTests ==
    \A i \in PossessionTests :
        LET c == calls[i]
        IN /\ \A p \in c.players :
                  (p \in c.holders) <=>
                      /\ length(Minus(ball.position, p.position)) < 30000
                      /\ fabs(anglemod(angle(Minus(ball.position, p.position))
                                       - p.orientation)) < 6
           /\ c.isControlled <=> (c.holders # {})

(* --------------------------- decision cycles -------------------------- *)

\* bool broadcastBallPossession(has_ball, ball_pos) of any robot: sendMessage
\* to every other robot in id order, stopping at the first send that fails
RECURSIVE broadcastBallPossession(_, _, _, _)
broadcastBallPossession(tbl, sender, i, cyc) ==
    IF i > NumAgents - 1 THEN [table |-> tbl, ok |-> TRUE]
    ELSE IF i = sender THEN broadcastBallPossession(tbl, sender, i + 1, cyc)
    ELSE IF FindSlot(tbl, cyc) = 0 THEN [table |-> tbl, ok |-> FALSE]
    ELSE broadcastBallPossession(
             [tbl EXCEPT ![FindSlot(tbl, cyc)] =
                 NewMessage(sender, [receiver |-> i, type |-> "BALL_POSSESSION",
                                     position |-> 50], cyc)],
             sender, i + 1, cyc)

\* one player_plan call of robot a, as the message table sees it:
\* cycle_counter++, initialize() on the first call, then, unless the play
\* mode is PM_STOP, the possession broadcast and the PASS_INTENTION receive
\* that decides between the pass reception and the tactic chain.
\* failed counts the broadcasts in a row that returned false; passAge counts
\* the calls of a since the newest PASS_INTENTION addressed to a was sent.
player_plan(a, stopped) ==
    LET c == cycles[a]
        tbl0 == IF is_initialized[a] THEN table ELSE [i \in Slots |-> ZeroSlot]
        bc == broadcastBallPossession(tbl0, a, 0, current_cycle[a])
        pass_message == receiveMessage(bc.table, a, "PASS_INTENTION")
        age == IF c.passAge < 0 THEN -1 ELSE c.passAge + 1
    IN
    /\ c.cycle_counter < MaxCycles
    /\ is_initialized' = [is_initialized EXCEPT ![a] = TRUE]
    /\ IF stopped
       THEN /\ table' = tbl0
            /\ cycles' = [cycles EXCEPT ![a] =
                   [cycle_counter |-> c.cycle_counter + 1, failed |-> c.failed,
                    passAge |-> age, command |-> "hold"]]
       ELSE /\ table' = bc.table
            /\ cycles' = [cycles EXCEPT ![a] =
                   [cycle_counter |-> c.cycle_counter + 1,
                    failed |-> IF bc.ok THEN 0 ELSE c.failed + 1,
                    passAge |-> age,
                    command |-> IF pass_message.receiver_id = a
                                THEN "pass" ELSE "chain"]]
    /\ UNCHANGED <<mutex, current_cycle, pc, arg, slot, ret, result, intended,
                   sentSeq, outcome, ncalls, tacVars, extVars, trackVars,
                   rosterVars>>

\* bool sendPassIntention(receiver_id, target_pos) called by robot b for
\* robot r between two decision cycles
sendPassIntention(b, r) ==
    LET i == FindSlot(table, current_cycle[b])
    IN
    /\ is_initialized[b]
    /\ i # 0
    /\ table' = [table EXCEPT ![i] =
           NewMessage(b, [receiver |-> r, type |-> "PASS_INTENTION",
                          position |-> 50], current_cycle[b])]
    /\ cycles' = [cycles EXCEPT ![r].passAge = 0]
    /\ UNCHANGED <<mutex, is_initialized, current_cycle, pc, arg, slot, ret,
                   result, intended, sentSeq, outcome, ncalls, tacVars, extVars,
                   trackVars, rosterVars>>

\* bool initialize(robot_id) of robot b's Communication: the memset of the
\* shared table that every attaching process runs
initialize(b) ==
    /\ ~is_initialized[b]
    /\ is_initialized' = [is_initialized EXCEPT ![b] = TRUE]
    /\ table' = [i \in Slots |-> ZeroSlot]
    /\ UNCHANGED <<mutex, current_cycle, pc, arg, slot, ret, result, intended,
                   sentSeq, outcome, ncalls, tacVars, extVars, lateVars>>

\* robot Me runs the decision cycles; its teammates attach and place pass
\* intentions for it
CycleNext ==
    \/ \E stopped \in BOOLEAN : player_plan(Me, stopped)
    \/ \E b \in Agents \ {Me} : initialize(b)
    \/ \E b \in Agents \ {Me} : sendPassIntention(b, Me)

SpecCycles == Init /\ [][CycleNext]_vars

\* C22: messages are stamped with the sender's advancing cycle number, so a
\* full table does not stay full: an agent whose broadcast failed because
\* the table was full broadcasts successfully again within TTL + 1 further
\* decision cycles, that is, no agent sees more than TTL + 1 broadcasts in a
\* row fail.
C22_FullTableRecovers ==
    \A a \in Agents : cycles[a].failed <= TTL + 1

\* C23: a PASS_INTENTION addressed to R diverts R's decision only during the
\* TTL decision cycles of R that follow its sending.
C23_PassIntentionExpires ==
    \A r \in Agents :
        cycles[r].command = "pass" =>
            (0 <= cycles[r].passAge /\ cycles[r].passAge <= TTL)

\* C24: the trackers are refreshed from the WorldState at the start of every
\* decision cycle: throughout a player_plan call the ball position the
\* program's tracker holds, which the category choice and the attack and
\* defense evaluate() read, is the one the WorldModel reports during that
\* call, so robot2 selects a defense tactic exactly when that ball is in its
\* own half.
C24_TrackersFollowSnapshot ==
    ppc # "idle" =>
        /\ tracked.ball_x = world.ball_x
        /\ (dll = "robot2" /\ bestOf.category # NoBest) =>
               (TypeOf(bestOf.category.name) = "DEFENSE" <=> world.ball_x < 0)

(* ------------------------------ histories ------------------------------ *)

\* pop_front(); push_front(sample)
pushSampleOverNewest(history, sample) ==
    <<sample>> \o SubSeq(history, 2, Len(history))

\* pop_back(); push_front(sample)
pushSample(history, sample) ==
    <<sample>> \o SubSeq(history, 1, Len(history) - 1)

\* point2f / dt with dt = duration / 1000.0, whole numbers
perSecond(v, duration) ==
    [x |-> (v.x * 1000) \div duration, y |-> (v.y * 1000) \div duration]

\* BallTools::updateState with the WorldModel reporting pos and vel,
\* duration milliseconds after the previous update (speed and direction are
\* the members of ball above)
BallToolsUpdateState(b, pos, vel, duration) ==
    [position |-> pos, lastPosition |-> b.position,
     velocity |-> vel, lastVelocity |-> b.velocity,
     positionHistory |-> pushSample(b.positionHistory, pos),
     acceleration |-> IF duration > 0
                      THEN perSecond(Minus(vel, b.velocity), duration)
                      ELSE b.acceleration,
     velocityHistory |-> pushSample(b.velocityHistory, vel),
     displacementRate |-> IF duration > 0
                          THEN (length(Minus(pos, b.position)) * 1000) \div duration
                          ELSE b.displacementRate,
     duration |-> duration, updates |-> b.updates + 1]

\* point2f getPositionNFramesAgo(int frames)
getPositionNFramesAgo(b, frames) ==
    IF frames < 0 \/ frames >= Len(b.positionHistory) THEN b.position
    ELSE b.positionHistory[frames + 1]

\* "if (dt > 0.0001) velocity = model->get_our_player_v(id)", the velocity
\* assigned whatever dt is
observedVelocityAlways(p, v, duration) == v

\* "if (dt > 0.0001) velocity = model->get_our_player_v(id)"
observedVelocity(p, v, duration) == IF duration > 0 THEN v ELSE p.velocity

\* Player::updateState for a player the existence array reports as exists,
\* at pos facing dir with velocity v (hasBall and stamina are written by
\* updateBallPossession() and updateStamina(dt))
PlayerUpdateState(p, exists, pos, dir, v, duration) ==
    IF ~exists
    THEN [p EXCEPT !.isActive = FALSE, !.duration = duration,
                   !.updates = p.updates + 1]
    ELSE LET velocity == observedVelocity(p, v, duration)
         IN [isActive |-> TRUE, position |-> pos, orientation |-> dir,
             velocity |-> velocity,
             rotSpeed |-> IF duration > 0
                          THEN (anglemod(dir - p.orientation) * 1000) \div duration
                          ELSE p.rotSpeed,
             positionHistory |-> pushSample(p.positionHistory, pos),
             velocityHistory |-> pushSample(p.velocityHistory, velocity),
             orientationHistory |-> pushSample(p.orientationHistory, dir),
             duration |-> duration, updates |-> p.updates + 1]

\* milliseconds between two updates: none, or one second
Durations == {0, 1000}
BallPoints == {Origin, [x |-> 600, y |-> 0]}
PlayerPoints == {[x |-> 600, y |-> 0], [x |-> 0, y |-> 1200]}

\* updateState() calls made since the trackers were constructed
Updates == (ballTools.updates - 1) + (player.updates - 1)

\* the newest MAX_HISTORY_FRAMES reads, the one just made last
Newest(log) ==
    IF Len(log) > MAX_HISTORY_FRAMES THEN Tail(log) ELSE log
BallSpeeds == {Origin, [x |-> 10, y |-> 0]}

BallUpdate(pos, vel, duration) ==
    /\ Updates < MaxUpdates
    /\ ballTools' = BallToolsUpdateState(ballTools, pos, vel, duration)
    /\ samples' = Newest(Append(samples, [position |-> pos, velocity |-> vel]))
    /\ UNCHANGED <<busVars, tacVars, extVars, cycleVars, rosterVars, player>>

PlayerUpdate(exists, pos, dir, v, duration) ==
    /\ Updates < MaxUpdates
    /\ player' = PlayerUpdateState(player, exists, pos, dir, v, duration)
    /\ UNCHANGED <<busVars, tacVars, extVars, cycleVars, rosterVars, ballTools,
                   samples>>

TrackNext ==
    \/ \E pos \in BallPoints, vel \in BallSpeeds, duration \in Durations :
          BallUpdate(pos, vel, duration)
    \/ \E exists \in BOOLEAN, pos \in PlayerPoints, dir \in {0, 12},
          v \in BallSpeeds, duration \in Durations :
          PlayerUpdate(exists, pos, dir, v, duration)

SpecTrack == Init /\ [][TrackNext]_vars

\* the sample read n updates before the newest one; the zeros of the
\* constructor before the first update
Pushed(n) ==
    IF n < Len(samples) THEN samples[Len(samples) - n]
    ELSE [position |-> Origin, velocity |-> Origin]

\* C25: after construction and after any number of updateState calls both
\* histories of the ball tracker hold exactly MAX_HISTORY_FRAMES samples,
\* index n holding the sample read n updates earlier (so index 0 is the
\* newest and each update evicts exactly the oldest); getPositionNFramesAgo(n)
\* returns that sample for 0 <= n < MAX_HISTORY_FRAMES and the current
\* position for any other n.
C25_BallHistory ==
    /\ Len(ballTools.positionHistory) = MAX_HISTORY_FRAMES
    /\ Len(ballTools.velocityHistory) = MAX_HISTORY_FRAMES
    /\ \A n \in 0 .. MAX_HISTORY_FRAMES - 1 :
          /\ ballTools.positionHistory[n + 1] = Pushed(n).position
          /\ ballTools.velocityHistory[n + 1] = Pushed(n).velocity
    /\ \A n \in -2 .. MAX_HISTORY_FRAMES + 2 :
          getPositionNFramesAgo(ballTools, n) =
              IF 0 <= n /\ n < MAX_HISTORY_FRAMES THEN Pushed(n).position
              ELSE ballTools.position

\* more updates than the history holds: a sample was evicted, and the oldest
\* one kept is neither the current position nor a zero of the constructor
C25_Witness ==
    /\ ballTools.updates > MAX_HISTORY_FRAMES
    /\ getPositionNFramesAgo(ballTools, MAX_HISTORY_FRAMES - 1) # ballTools.position
    /\ getPositionNFramesAgo(ballTools, MAX_HISTORY_FRAMES - 1) # Origin
    /\ getPositionNFramesAgo(ballTools, MAX_HISTORY_FRAMES) = ballTools.position

\* C27: an updateState call that finds no time elapsed since the previous
\* update leaves the ball's acceleration and displacement rate, and an
\* existing player's velocity and rotational speed, as they were, and still
\* puts the position it read at the front of the position history.
C27_ZeroElapsedKeepsDerived ==
    [][/\ (ballTools'.updates > ballTools.updates /\ ballTools'.duration = 0) =>
             /\ ballTools'.acceleration = ballTools.acceleration
             /\ ballTools'.displacementRate = ballTools.displacementRate
             /\ ballTools'.position = samples'[Len(samples')].position
             /\ ballTools'.positionHistory[1] = ballTools'.position
             /\ SubSeq(ballTools'.positionHistory, 2, MAX_HISTORY_FRAMES)
                    = SubSeq(ballTools.positionHistory, 1, MAX_HISTORY_FRAMES - 1)
       /\ (player'.updates > player.updates /\ player'.isActive
              /\ player'.duration = 0) =>
             /\ player'.velocity = player.velocity
             /\ player'.rotSpeed = player.rotSpeed
             /\ player'.positionHistory[1] = player'.position
             /\ SubSeq(player'.positionHistory, 2, PLAYER_HISTORY_SIZE)
                    = SubSeq(player.positionHistory, 1, PLAYER_HISTORY_SIZE - 1)
      ]_vars

\* both trackers were last updated with no time elapsed, after the ball and
\* the player had moved, turned and changed velocity: recomputing would have
\* given other values than the ones kept
C27_Witness ==
    /\ ballTools.updates > 1
    /\ ballTools.duration = 0
    /\ ballTools.position # ballTools.lastPosition
    /\ ballTools.velocity # ballTools.lastVelocity
    /\ ballTools.acceleration # Origin
    /\ ballTools.displacementRate # 0
    /\ player.isActive
    /\ player.duration = 0
    /\ player.positionHistory[1] # player.positionHistory[2]
    /\ player.orientationHistory[1] # player.orientationHistory[2]
    /\ player.rotSpeed # 0
    /\ player.velocity # Origin

(* ------------------------------- rosters ------------------------------- *)

\* robot ids 0 .. MAX_TEAM_ROBOTS - 1 of one team
Robots == 0 .. (MaxPlayers - 1)
\* model->get_our_goalie()
OurGoalie == MaxPlayers - 1

\* where the WorldModel reports robot i: every robot has an x of its own
PositionOf(i, shift) == [x |-> 600 * (i + 1), y |-> 600 * shift]

\* the loop of OppPlayers::updateState and of Teammates::updateState over
\* the ids from i on: a new OppPlayer(i) / Teammate(i) for every listed id,
\* with the zero history of its constructor and one updateHistory()
RECURSIVE RefillFrom(_, _, _, _, _, _)
RefillFrom(old, listed, shift, size, i, players) ==
    IF i > MaxPlayers - 1 THEN players
    ELSE IF i \notin listed THEN RefillFrom(old, listed, shift, size, i + 1, players)
    ELSE LET count == Len(players)
             position == PositionOf(i, shift)
         IN RefillFrom(old, listed, shift, size, i + 1,
                Append(players,
                    [id |-> i, isActive |-> TRUE, position |-> position,
                     lastPosition |-> IF count < Len(old) /\ old[count + 1].id = i
                                      THEN old[count + 1].position ELSE position,
                     positionHistory |->
                         pushSample([k \in 1 .. size |-> Origin], position)]))

\* one slot of Players::updateState: the slot takes the id found for it, or
\* is marked inactive
SlotUpdate(old, found, shift) ==
    IF found = {} THEN [old EXCEPT !.isActive = FALSE, !.lastPosition = old.position]
    ELSE LET i == CHOOSE j \in found : \A k \in found : j <= k
         IN [id |-> i, isActive |-> TRUE, position |-> PositionOf(i, shift),
             lastPosition |-> old.position,
             positionHistory |-> pushSample(old.positionHistory, PositionOf(i, shift))]

\* OppPlayers::updateState with the opponents in exists reported
OppPlayersUpdate(exists, shift) ==
    /\ roster.updates < MaxUpdates
    /\ roster' = [roster EXCEPT
           !.opp = RefillFrom(roster.opp, exists, shift, OPP_HISTORY_SIZE, 0, << >>),
           !.updates = roster.updates + 1]
    /\ UNCHANGED <<busVars, tacVars, extVars, cycleVars, trackVars>>

\* Teammates::updateState of robot Me with the robots in exists reported
TeammatesUpdate(exists, shift) ==
    /\ roster.updates < MaxUpdates
    /\ roster' = [roster EXCEPT
           !.mates = RefillFrom(roster.mates, exists \ {Me, OurGoalie}, shift,
                                HISTORY_SIZE, 0, << >>),
           !.updates = roster.updates + 1]
    /\ UNCHANGED <<busVars, tacVars, extVars, cycleVars, trackVars>>

\* Players::updateState with the robots in exists reported: player1 takes the
\* first and player2 the second id that exists and is not the goalie
PlayersUpdate(exists, shift) ==
    LET found == exists \ {OurGoalie}
        first == IF found = {} THEN {}
                 ELSE {CHOOSE j \in found : \A k \in found : j <= k}
    IN
    /\ roster.updates < MaxUpdates
    /\ roster' = [roster EXCEPT
           !.player1 = SlotUpdate(roster.player1, found, shift),
           !.player2 = SlotUpdate(roster.player2, found \ first, shift),
           !.updates = roster.updates + 1]
    /\ UNCHANGED <<busVars, tacVars, extVars, cycleVars, trackVars>>

RosterNext ==
    \E exists \in SUBSET Robots, shift \in {0, 1} :
        \/ OppPlayersUpdate(exists, shift)
        \/ TeammatesUpdate(exists, shift)
        \/ PlayersUpdate(exists, shift)

SpecRoster == Init /\ [][RosterNext]_vars

\* the state objects a tracker holds
Records(r) ==
    [opp |-> {r.opp[k] : k \in 1 .. Len(r.opp)},
     mates |-> {r.mates[k] : k \in 1 .. Len(r.mates)},
     ours |-> {r.player1, r.player2}]

\* the object has recorded a position of a robot
Tracked(p) == \E k \in DOMAIN p.positionHistory : p.positionHistory[k] # Origin

\* every recorded sample is a position of the robot the object stands for
OwnSamples(p) ==
    \A k \in DOMAIN p.positionHistory :
        \/ p.positionHistory[k] = Origin
        \/ \E shift \in {0, 1} : p.positionHistory[k] = PositionOf(p.id, shift)

\* C26: a tracker update keeps, for every id it has tracked, the state
\* object of that id: its history is the old one with the new sample in
\* front while the id exists and is left as it was, the object marked
\* inactive, while the id is absent; and no object ever holds a sample of
\* another id.
C26_HistorySurvives ==
    [][roster'.updates > roster.updates =>
          \A t \in {"opp", "mates", "ours"} :
              /\ \A p \in Records(roster)[t] :
                    Tracked(p) =>
                        \E q \in Records(roster')[t] :
                            /\ q.id = p.id
                            /\ q.positionHistory =
                                   IF q.isActive
                                   THEN pushSample(p.positionHistory, q.position)
                                   ELSE p.positionHistory
              /\ \A q \in Records(roster')[t] : OwnSamples(q)
      ]_vars

\* C28: a send by S of type T to receiver R refreshes in place the slot that
\* already holds S's earlier message of type T for R, so whenever no send is
\* in progress the table holds at most one message for each sender,
\* receiver and type.
C28_OneSlotPerIntent ==
    (\A a \in Agents : pc[a] \notin HoldPcs) =>
        \A i, j \in Slots :
            (i # j /\ Holds(table[i]) /\ Holds(table[j])) =>
                <<table[i].sender_id, table[i].receiver_id, table[i].type>>
                    # <<table[j].sender_id, table[j].receiver_id, table[j].type>>

\* C30: an agent's initialize, called while its peers are already running,
\* changes no slot that holds a message written by another agent, so such a
\* message is still in the table for its receiver afterwards.
C30_LateJoinKeepsSlots ==
    [][\A a \in Agents :
          (pc[a] = "i_cs" /\ pc'[a] # "i_cs") =>
              \A i \in Slots :
                  (Holds(table[i]) /\ table[i].sender_id # a) =>
                      table'[i] = table[i]]_vars

\* C29: every attack and defense tactic divides its raw sum by its own
\* largest attainable raw sum: whenever evaluate() finds every scoring
\* condition of the tactic at its best level, the score is exactly 1.0.
C29_BestLevelScoresOne ==
    /\ (evalTactic = "DirectAttack" /\ evalInput[1] > 0 /\ evalInput[2] >= 0
           /\ evalInput[3] < 50 /\ evalInput[4] < 200 /\ evalInput[5] < 5)
          => evalScore = Literal(10)
    /\ (evalTactic = "PassAndShoot" /\ evalInput[1] > 0 /\ evalInput[2] >= 2
           /\ evalInput[3] >= 0 /\ evalInput[4] /\ evalInput[5] < 2)
          => evalScore = Literal(10)
    /\ (evalTactic = "WingAttack" /\ evalInput[1] /\ evalInput[2]
           /\ evalInput[3] >= 2)
          => evalScore = Literal(10)
    /\ (evalTactic = "ManMarking" /\ evalInput[1] < 0 /\ evalInput[2] # 0
           /\ evalInput[2] <= 2)
          => evalScore = Literal(10)
    /\ (evalTactic = "ZoneDefense" /\ evalInput[1] < 0 /\ evalInput[2] >= 2
           /\ (evalInput[3] \/ evalInput[4]))
          => evalScore = Literal(10)
    /\ (evalTactic = "RetreatDefense" /\ evalInput[1] < evalInput[2]
           /\ evalInput[3] <= 0 /\ evalInput[5])
          => evalScore = Literal(10)

====
